---- MODULE Spec2Model ----
(***************************************************************************)
(* A model of the probability toolkit `ko`:                                *)
(*   src/src/probability/discrete_distribution.rs                          *)
(*   src/src/cartesian_product.rs, src/src/joint_distribution.rs           *)
(*                                                                         *)
(* Every operation of the library is a function of its arguments, so a     *)
(* state of the model is one call: `call` holds the operation and its      *)
(* arguments, `result` what the call produced (a value, or a panic).       *)
(*                                                                         *)
(* Numbers.  An f64 probability x is modelled as a record [n, f, g] read   *)
(* relative to a denominator d:                                            *)
(*        x = (n + f*eps + g*eps^2) / d                                    *)
(* where n counts grid steps 1/d, and eps is a quantity far below the grid *)
(* (the noise a tolerance of 1e-10 is there to absorb): 1e-10 = Tol*eps/Den.*)
(* Sums and differences are exact; a product is kept up to eps^2 (higher   *)
(* orders are below what an f64 near 1e-10 carries).  Order is that of the *)
(* reals for eps small: lexicographic on (n, f, g).                        *)
(***************************************************************************)
EXTENDS Integers, Sequences, FiniteSets, TLC

VARIABLES call, result

vars == <<call, result>>

(***************************************************************************)
(* Bounds of the model.                                                    *)
(***************************************************************************)
\* longest outcome / probability vector enumerated
MaxLen == 2
\* outcomes are drawn from 0..MaxVal
MaxVal == 1
\* grid of the probabilities: multiples of 1/Den
Den == 2

\* largest n handed to the convoluted_* constructors
MaxN == 3

\* most vectors in a cartesian product, most distributions in a joint one
MaxSets == 2

\* 1e-10, in units of eps/Den
Tol == 3

(***************************************************************************)
(* f64 arithmetic                                                          *)
(***************************************************************************)
Num(n, f, g) == [n |-> n, f |-> f, g |-> g]

Zero == Num(0, 0, 0)

Add(a, b) == Num(a.n + b.n, a.f + b.f, a.g + b.g)

Neg(a) == Num(0 - a.n, 0 - a.f, 0 - a.g)

Sub(a, b) == Add(a, Neg(b))

Mul(a, b) == Num(a.n * b.n, a.n * b.f + a.f * b.n, a.n * b.g + a.f * b.f + a.g * b.n)

\* a > 0.
IsPos(a) == \/ a.n > 0
            \/ a.n = 0 /\ a.f > 0
            \/ a.n = 0 /\ a.f = 0 /\ a.g > 0

\* a < b
Less(a, b) == IsPos(Sub(b, a))

\* a >= b
Geq(a, b) == ~Less(a, b)

Abs(a) == IF IsPos(a) THEN a ELSE Neg(a)

\* 1. relative to the denominator d
One(d) == Num(d, 0, 0)

\* 1e-10 relative to the denominator d
Tolerance(d) == Num(0, Tol * (d \div Den), 0)

RECURSIVE SumFrom(_, _)
\* iter().sum() over the elements i.. of a vector of f64
SumFrom(s, i) == IF i > Len(s) THEN Zero ELSE Add(s[i], SumFrom(s, i + 1))

Sum(s) == SumFrom(s, 1)

(***************************************************************************)
(* DiscreteProbabilityDistribution                                         *)
(***************************************************************************)
Panic == [ok |-> FALSE]

Ok(v) == [ok |-> TRUE, val |-> v]

Dist(outcomes, probabilities, d) ==
    [outcomes |-> outcomes, probabilities |-> probabilities, den |-> d]

\* new() with the sum allowed to be off by 1e-10 itself (<= for <)
NewSumAtTolerance(outcomes, probabilities, d) ==
    IF Len(outcomes) # Len(probabilities) THEN Panic
    ELSE IF ~(\A i \in 1..Len(probabilities) :
                 Geq(probabilities[i], Neg(Tolerance(d)))) THEN Panic
    ELSE IF Less(Tolerance(d), Abs(Sub(Sum(probabilities), One(d)))) THEN Panic
    ELSE Ok(Dist(outcomes, probabilities, d))

\* DiscreteProbabilityDistribution::new: the three assertions, then the value
New(outcomes, probabilities, d) ==
    IF Len(outcomes) # Len(probabilities) THEN Panic
    ELSE IF ~(\A i \in 1..Len(probabilities) :
                 Geq(probabilities[i], Neg(Tolerance(d)))) THEN Panic
    ELSE IF ~Less(Abs(Sub(Sum(probabilities), One(d))), Tolerance(d)) THEN Panic
    ELSE Ok(Dist(outcomes, probabilities, d))

RECURSIVE PositionFrom(_, _, _)
\* iter().position(|y| y == x), scanning from index i: the first index
\* holding x, 0 for None
PositionFrom(s, x, i) ==
    IF i > Len(s) THEN 0
    ELSE IF s[i] = x THEN i
    ELSE PositionFrom(s, x, i + 1)

\* rposition for position: the last index holding x
PositionLast(s, x) ==
    IF \E i \in 1..Len(s) : s[i] = x
    THEN CHOOSE i \in 1..Len(s) : s[i] = x /\ \A j \in (i + 1)..Len(s) : s[j] # x
    ELSE 0

Position(s, x) == PositionFrom(s, x, 1)

\* DiscreteProbabilityDistribution::pmf
Pmf(dist, x) ==
    LET i == Position(dist.outcomes, x)
    IN  IF i # 0 THEN dist.probabilities[i] ELSE Zero

\* the length of the HashSet collected from a vector
HashSetLen(s) == Cardinality({s[i] : i \in 1..Len(s)})

RECURSIVE PmfSumFrom(_, _, _)
\* domain.iter().map(|x| self.pmf(x)).sum()
PmfSumFrom(dist, domain, i) ==
    IF i > Len(domain) THEN Zero
    ELSE Add(Pmf(dist, domain[i]), PmfSumFrom(dist, domain, i + 1))

\* measure() without its assertion
MeasureUnchecked(dist, domain) == Ok(PmfSumFrom(dist, domain, 1))

\* DiscreteProbabilityDistribution::measure
Measure(dist, domain) ==
    IF Len(domain) # HashSetLen(domain) THEN Panic
    ELSE Ok(PmfSumFrom(dist, domain, 1))

RECURSIVE SampleLoop(_, _, _)
\* the loop of sample() with u and i as they stand (i counts from 0), then
\* the read of outcomes[i - 1]; an index outside the vector panics, and so
\* does i - 1 for i = 0 (usize)
SampleLoop(dist, u, i) ==
    IF IsPos(u)
    THEN IF i >= Len(dist.probabilities) THEN Panic
         ELSE SampleLoop(dist, Sub(u, dist.probabilities[i + 1]), i + 1)
    ELSE IF i - 1 < 0 \/ i - 1 >= Len(dist.outcomes) THEN Panic
         ELSE Ok(dist.outcomes[(i - 1) + 1])

RECURSIVE SampleLoopReadsAtI(_, _, _)
\* the loop of sample(), then the read of outcomes[i] for outcomes[i - 1]
SampleLoopReadsAtI(dist, u, i) ==
    IF IsPos(u)
    THEN IF i >= Len(dist.probabilities) THEN Panic
         ELSE SampleLoopReadsAtI(dist, Sub(u, dist.probabilities[i + 1]), i + 1)
    ELSE IF i >= Len(dist.outcomes) THEN Panic
         ELSE Ok(dist.outcomes[i + 1])

\* sample() returning the outcome after the one the loop stopped at
SampleNextOutcome(dist, u) == SampleLoopReadsAtI(dist, u, 0)

\* DiscreteProbabilityDistribution::sample, for the draw u of rng.gen::<f64>()
Sample(dist, u) == SampleLoop(dist, u, 0)

(***************************************************************************)
(* discrete_convolution and the constructors on i32 outcomes               *)
(***************************************************************************)
\* iter().min() and iter().max() of a non-empty vector of i32
MinOf(s) == CHOOSE x \in {s[i] : i \in 1..Len(s)} : \A j \in 1..Len(s) : x <= s[j]

MaxOf(s) == CHOOSE x \in {s[i] : i \in 1..Len(s)} : \A j \in 1..Len(s) : x >= s[j]

\* (min..max) for (min..max + 1)
RangeVecExclusive(lo, hi) == [i \in 1..(hi - lo) |-> lo + i - 1]

\* (min..max + 1).collect()
RangeVec(lo, hi) == [i \in 1..(hi - lo + 1) |-> lo + i - 1]

RECURSIVE ConvTermsFrom(_, _, _, _)
\* dist_x.outcomes().iter().map(|&k| dist_x.pmf(&k) * dist_y.pmf(&(z - k))).sum()
ConvTermsFrom(dist_x, dist_y, z, i) ==
    IF i > Len(dist_x.outcomes) THEN Zero
    ELSE Add(Mul(Pmf(dist_x, dist_x.outcomes[i]),
                 Pmf(dist_y, z - dist_x.outcomes[i])),
             ConvTermsFrom(dist_x, dist_y, z, i + 1))

RECURSIVE ConvProbabilities(_, _, _, _)
\* outcomes.iter().map(|&z| ...).collect(): the sum above for each z
ConvProbabilities(dist_x, dist_y, outcomes, i) ==
    IF i > Len(outcomes) THEN <<>>
    ELSE <<ConvTermsFrom(dist_x, dist_y, outcomes[i], 1)>>
             \o ConvProbabilities(dist_x, dist_y, outcomes, i + 1)

RECURSIVE KeepOutcomes(_, _, _)
\* outcomes.iter().zip(probabilities.iter()).filter(|(_, &p)| p > 0.).map(|(&z, _)| z)
KeepOutcomes(outcomes, probabilities, i) ==
    IF i > Len(outcomes) \/ i > Len(probabilities) THEN <<>>
    ELSE IF IsPos(probabilities[i])
         THEN <<outcomes[i]>> \o KeepOutcomes(outcomes, probabilities, i + 1)
         ELSE KeepOutcomes(outcomes, probabilities, i + 1)

\* probabilities.iter().filter(|&p| p > &0.)
KeepProbabilities(probabilities) == SelectSeq(probabilities, IsPos)

\* discrete_convolution without the two filters
DiscreteConvolutionUnfiltered(dist_x, dist_y) ==
    LET min == MinOf(dist_x.outcomes) + MinOf(dist_y.outcomes)
        max == MaxOf(dist_x.outcomes) + MaxOf(dist_y.outcomes)
        outcomes == RangeVec(min, max)
    IN  New(outcomes, ConvProbabilities(dist_x, dist_y, outcomes, 1),
            dist_x.den * dist_y.den)

\* discrete_convolution
DiscreteConvolution(dist_x, dist_y) ==
    LET min == MinOf(dist_x.outcomes) + MinOf(dist_y.outcomes)
        max == MaxOf(dist_x.outcomes) + MaxOf(dist_y.outcomes)
        outcomes == RangeVec(min, max)
        probabilities == ConvProbabilities(dist_x, dist_y, outcomes, 1)
    IN  New(KeepOutcomes(outcomes, probabilities, 1),
            KeepProbabilities(probabilities),
            dist_x.den * dist_y.den)

\* DiscreteProbabilityDistribution::multinomial
Multinomial(probabilities, d) ==
    New([i \in 1..Len(probabilities) |-> i - 1], probabilities, d)

\* DiscreteProbabilityDistribution::binomial(p)
Binomial(p, d) == Multinomial(<<Sub(One(d), p), p>>, d)

RECURSIVE ConvolveLoop(_, _)
\* for _ in 1..n { dist = discrete_convolution(&dist, &dist); } with `left`
\* iterations to go; r is dist, or the panic that ended the call
ConvolveLoop(r, left) ==
    IF ~r.ok \/ left <= 0 THEN r
    ELSE ConvolveLoop(DiscreteConvolution(r.val, r.val), left - 1)

\* DiscreteProbabilityDistribution::convoluted_multinomial
ConvolutedMultinomial(n, probabilities, d) ==
    ConvolveLoop(Multinomial(probabilities, d), n - 1)

\* DiscreteProbabilityDistribution::convoluted_binomial: probabilities[1] is
\* the second element, and panics when there is none
ConvolutedBinomial(n, probabilities, d) ==
    IF Len(probabilities) < 2 THEN Panic
    ELSE ConvolveLoop(Binomial(probabilities[2], d), n - 1)

(***************************************************************************)
(* cartesian_product! and joint_distribution!                              *)
(***************************************************************************)
RECURSIVE NumElementsFrom(_, _)
\* vectors.iter().fold(1, |acc, x| acc * x.len()), from vector i on
NumElementsFrom(vectors, i) ==
    IF i > Len(vectors) THEN 1
    ELSE Len(vectors[i]) * NumElementsFrom(vectors, i + 1)

\* floors that are never multiplied up
FloorsAllOne(vectors, floors, i) == [j \in 1..Len(vectors) |-> 1]

RECURSIVE FloorsLoop(_, _, _)
\* for i in 0..num_sets - 1 { floors.push(floors[floors.len() - 1] * vectors[i].len()) }
\* with floors so far and the i of the next iteration
FloorsLoop(vectors, floors, i) ==
    IF i >= Len(vectors) - 1 THEN floors
    ELSE FloorsLoop(vectors,
                    Append(floors, floors[Len(floors)] * Len(vectors[i + 1])),
                    i + 1)

RECURSIVE ElementLoop(_, _, _, _)
\* for j in 0..num_sets { element.push(vectors[j][(i / floors[j]) % vectors[j].len()]) }
\* from j on
ElementLoop(vectors, floors, i, j) ==
    IF j >= Len(vectors) THEN <<>>
    ELSE <<vectors[j + 1][((i \div floors[j + 1]) % Len(vectors[j + 1])) + 1]>>
             \o ElementLoop(vectors, floors, i, j + 1)

RECURSIVE ProductLoop(_, _, _, _)
\* for i in 0..num_elements { product.push(element) } from i on
ProductLoop(vectors, floors, num_elements, i) ==
    IF i >= num_elements THEN <<>>
    ELSE <<ElementLoop(vectors, floors, i, 0)>>
             \o ProductLoop(vectors, floors, num_elements, i + 1)

\* the product with the last vector varying fastest
ProductOfLastFastest(vectors) ==
    IF Len(vectors) - 1 < 0 THEN Panic
    ELSE Ok([i \in 1..NumElementsFrom(vectors, 1) |->
               [j \in 1..Len(vectors) |->
                  vectors[j][(((i - 1) \div NumElementsFrom(vectors, j + 1))
                                 % Len(vectors[j])) + 1]]])

\* the body the two arms of cartesian_product! share; num_sets - 1 panics
\* for no vectors (usize)
ProductOf(vectors) ==
    IF Len(vectors) - 1 < 0 THEN Panic
    ELSE Ok(ProductLoop(vectors, FloorsLoop(vectors, <<1>>, 0),
                        NumElementsFrom(vectors, 1), 0))

\* cartesian_product!(vectors): one identifier, a vector of vectors
CartesianProductOfVector(vectors) == ProductOf(vectors)

\* cartesian_product!(a, b, ...): let vectors = vec![a, b, ...]
CartesianProductOfIdents(vectors) == ProductOf(vectors)

RECURSIVE FoldMul(_, _, _)
\* x.into_iter().fold(1., |prod, y| prod * y), with prod so far, from y = x[i]
FoldMul(x, prod, i) ==
    IF i > Len(x) THEN prod ELSE FoldMul(x, Mul(prod, x[i]), i + 1)

RECURSIVE MapFoldMul(_, _)
\* .into_iter().map(|x| ...fold...).collect() from tuple i on
MapFoldMul(tuples, i) ==
    IF i > Len(tuples) THEN <<>>
    ELSE <<FoldMul(tuples[i], Num(1, 0, 0), 1)>> \o MapFoldMul(tuples, i + 1)

RECURSIVE DenOf(_, _)
\* the denominator the product of one probability of each distribution is
\* read relative to
DenOf(dists, i) == IF i > Len(dists) THEN 1 ELSE dists[i].den * DenOf(dists, i + 1)

\* joint_distribution! with the probabilities enumerated in another order
\* than the outcomes
JointDistributionMisordered(dists) ==
    LET outcomes == [j \in 1..Len(dists) |-> dists[j].outcomes]
        probabilities == [j \in 1..Len(dists) |-> dists[j].probabilities]
        joint_outcomes == ProductOf(outcomes)
        joint_probabilities == ProductOfLastFastest(probabilities)
    IN  IF ~joint_outcomes.ok \/ ~joint_probabilities.ok THEN Panic
        ELSE New(joint_outcomes.val,
                 MapFoldMul(joint_probabilities.val, 1),
                 DenOf(dists, 1))

\* joint_distribution!(x, ...) for the sequence of distributions x, ...
JointDistribution(dists) ==
    LET outcomes == [j \in 1..Len(dists) |-> dists[j].outcomes]
        probabilities == [j \in 1..Len(dists) |-> dists[j].probabilities]
        joint_outcomes == CartesianProductOfVector(outcomes)
        joint_probabilities == CartesianProductOfVector(probabilities)
    IN  IF ~joint_outcomes.ok \/ ~joint_probabilities.ok THEN Panic
        ELSE New(joint_outcomes.val,
                 MapFoldMul(joint_probabilities.val, 1),
                 DenOf(dists, 1))

\* joint_distribution!(a, b) followed by measure over all its outcomes
JointMeasure(dists) ==
    LET joint == JointDistribution(dists)
    IN  IF ~joint.ok THEN Panic ELSE Measure(joint.val, joint.val.outcomes)

(***************************************************************************)
(* Inputs                                                                  *)
(***************************************************************************)
SeqsUpTo(S, k) == UNION {[1..m -> S] : m \in 0..k}

Vals == 0..MaxVal

\* noise on an entry: none, the largest inside the tolerance, the tolerance
\* itself, and one step beyond it
NoiseVals == {0 - (Tol + 1), 0 - Tol, 0, Tol - 1, Tol}

\* an f64 handed to new(): a grid value (also below 0) with noise
RawProbs == {Num(n, f, 0) : n \in (0 - 1)..Den, f \in NoiseVals}

\* the probabilities of the distributions the other operations are called
\* on: grid values, exact or one step of noise short
PoolProbs == {Num(n, f, 0) : n \in 0..Den, f \in {0 - 1, 0}}

\* the distributions new() builds from outcome vectors os and probability
\* vectors ps
DistsOver(os, ps) ==
    UNION {{New(o, p, Den).val : o \in {x \in os : New(x, p, Den).ok}} : p \in ps}

ValidDists ==
    UNION {DistsOver([1..m -> Vals], [1..m -> PoolProbs]) : m \in 1..MaxLen}

\* probabilities on the grid, without noise
GridProbs == {Num(n, 0, 0) : n \in 0..Den}

\* distributions with any outcomes (repeated and unordered ones too) on the
\* grid
GridDists ==
    UNION {DistsOver([1..m -> Vals], [1..m -> GridProbs]) : m \in 1..MaxLen}

\* the distributions multinomial() builds from a set of probability vectors
MultinomialsOf(ps) ==
    {Multinomial(p, Den).val : p \in {q \in ps : Multinomial(q, Den).ok}}

Multinomials == MultinomialsOf(UNION {[1..m -> PoolProbs] : m \in 1..MaxLen})

GridMultinomials == MultinomialsOf(UNION {[1..m -> GridProbs] : m \in 1..MaxLen})

\* the pairs of distributions the binary operations are called on
Pairs ==
    (Multinomials \X Multinomials)
        \cup (GridDists \X GridMultinomials)
        \cup (GridMultinomials \X GridDists)

\* the distributions binomial(p) builds
Bernoullis == {Binomial(p, Den).val : p \in {q \in GridProbs : Binomial(q, Den).ok}}

\* the vectors the cartesian product is taken of: those of distinct outcome
\* values (the empty one too), those that repeat one value, and the two of
\* the documentation's example
Vectors ==
    {v \in SeqsUpTo(Vals, MaxLen) : \A i, j \in 1..Len(v) : v[i] = v[j] => i = j}
        \cup {<<x, x>> : x \in Vals}
        \cup {<<1, 2>>, <<4, 5>>}

\* a value no distribution lists
Absent == MaxVal + 1

\* the draws of rng.gen::<f64>(): uniform in [0, 1)
Draws == {u \in {Num(n, f, 0) : n \in 0..Den, f \in (0 - 1)..1} :
             Geq(u, Zero) /\ Less(u, One(Den))}

Init == call = [op |-> "none"] /\ result = Panic

\* a behaviour is one call of the library: the operations share no state
Fresh == call.op = "none"

DoNew ==
    /\ Fresh
    /\ \E o \in SeqsUpTo(Vals, MaxLen), p \in SeqsUpTo(RawProbs, MaxLen) :
           /\ call' = [op |-> "new", outcomes |-> o, probabilities |-> p]
           /\ result' = New(o, p, Den)

DoPmf ==
    /\ Fresh
    /\ \E dist \in ValidDists, x \in Vals \cup {Absent} :
           /\ call' = [op |-> "pmf", dist |-> dist, x |-> x]
           /\ result' = Ok(Pmf(dist, x))

DoMeasure ==
    /\ Fresh
    /\ \E dist \in ValidDists, domain \in SeqsUpTo(Vals \cup {Absent}, MaxLen) :
           /\ call' = [op |-> "measure", dist |-> dist, domain |-> domain]
           /\ result' = Measure(dist, domain)

DoSample ==
    /\ Fresh
    /\ \E dist \in ValidDists, u \in Draws :
           /\ call' = [op |-> "sample", dist |-> dist, u |-> u]
           /\ result' = Sample(dist, u)

DoConvolution ==
    /\ Fresh
    /\ \E pair \in Pairs :
           /\ call' = [op |-> "discrete_convolution",
                       dist_x |-> pair[1], dist_y |-> pair[2]]
           /\ result' = DiscreteConvolution(pair[1], pair[2])

DoConvolutedMultinomial ==
    /\ Fresh
    /\ \E n \in 0..MaxN, p \in SeqsUpTo(GridProbs, MaxLen) :
           /\ call' = [op |-> "convoluted_multinomial", n |-> n, probabilities |-> p]
           /\ result' = ConvolutedMultinomial(n, p, Den)

DoConvolutedBinomial ==
    /\ Fresh
    /\ \E n \in 0..MaxN, p \in SeqsUpTo(GridProbs, MaxLen) :
           /\ call' = [op |-> "convoluted_binomial", n |-> n, probabilities |-> p]
           /\ result' = ConvolutedBinomial(n, p, Den)

DoCartesianProductOfVector ==
    /\ Fresh
    /\ \E vectors \in SeqsUpTo(Vectors, MaxSets) :
           /\ call' = [op |-> "cartesian_product", form |-> "vector",
                       vectors |-> vectors]
           /\ result' = CartesianProductOfVector(vectors)

\* two identifiers at least: one alone matches the other arm
DoCartesianProductOfIdents ==
    /\ Fresh
    /\ \E k \in 2..MaxSets :
           \E vectors \in [1..k -> Vectors] :
               /\ call' = [op |-> "cartesian_product", form |-> "idents",
                           vectors |-> vectors]
               /\ result' = CartesianProductOfIdents(vectors)

DoJoint ==
    /\ Fresh
    /\ \E pair \in Pairs :
           /\ call' = [op |-> "joint_distribution", dists |-> <<pair[1], pair[2]>>]
           /\ result' = JointDistribution(<<pair[1], pair[2]>>)

DoJointOfMany ==
    /\ Fresh
    /\ \E k \in 1..MaxSets :
           \E dists \in [1..k -> Bernoullis] :
               /\ call' = [op |-> "joint_distribution", dists |-> dists]
               /\ result' = JointDistribution(dists)

DoJointMeasure ==
    /\ Fresh
    /\ \E pair \in Pairs :
           /\ call' = [op |-> "joint_measure", dists |-> <<pair[1], pair[2]>>]
           /\ result' = JointMeasure(<<pair[1], pair[2]>>)

Next == DoNew

Spec == Init /\ [][Next]_vars

NextConv == DoConvolution \/ DoConvolutedMultinomial \/ DoConvolutedBinomial

SpecConv == Init /\ [][NextConv]_vars

NextProduct == DoCartesianProductOfVector \/ DoCartesianProductOfIdents

SpecProduct == Init /\ [][NextProduct]_vars

NextJoint == DoJoint \/ DoJointOfMany \/ DoJointMeasure

SpecJoint == Init /\ [][NextJoint]_vars

NextQuery == DoPmf \/ DoMeasure \/ DoSample

SpecQuery == Init /\ [][NextQuery]_vars

(***************************************************************************)
(* Properties of new, pmf, measure and sample                              *)
(***************************************************************************)
RECURSIVE IntSum(_)
IntSum(s) == IF s = <<>> THEN 0 ELSE Head(s) + IntSum(Tail(s))

\* the grid steps, and the noise, of a vector of probabilities added up
GridSum(p) == IntSum([i \in 1..Len(p) |-> p[i].n])

NoiseSum(p) == IntSum([i \in 1..Len(p) |-> p[i].f])

\* what the documentation of new() asks of its arguments, on the numbers
\* handed in (grid steps of 1/Den, noise in units of 1e-10/Tol)
WellFormed(o, p) ==
    /\ Len(o) = Len(p)
    /\ \A i \in 1..Len(p) : p[i].n > 0 \/ (p[i].n = 0 /\ p[i].f >= 0 - Tol)
    /\ GridSum(p) = Den
    /\ 0 - Tol < NoiseSum(p) /\ NoiseSum(p) < Tol

\* C1: new(outcomes, probabilities) succeeds exactly when the two vectors
\* have equal length, every probability is >= -1e-10 and the probabilities
\* sum to 1 within 1e-10 (strictly); it then holds exactly the two vectors.
\* In every other case it panics and produces no distribution.
C1_NewSucceedsIffValid ==
    call.op = "new" =>
        /\ result.ok <=> WellFormed(call.outcomes, call.probabilities)
        /\ result.ok =>
               /\ result.val.outcomes = call.outcomes
               /\ result.val.probabilities = call.probabilities
        /\ ~result.ok => result = Panic

\* new() accepted a vector holding a probability below 0 (inside the
\* tolerance) whose sum is not exactly 1
C1_Witness ==
    /\ call.op = "new"
    /\ result.ok
    /\ \E i \in 1..Len(call.probabilities) : Less(call.probabilities[i], Zero)
    /\ NoiseSum(call.probabilities) # 0

\* C2: pmf(x) is the probability stored at the first index whose outcome is
\* x, and exactly 0, without failing, when no outcome is x.
C2_PmfFirstMatchOrZero ==
    call.op = "pmf" =>
        /\ result.ok
        /\ \A i \in 1..Len(call.dist.outcomes) :
               (/\ call.dist.outcomes[i] = call.x
                /\ \A j \in 1..(i - 1) : call.dist.outcomes[j] # call.x)
               => result.val = call.dist.probabilities[i]
        /\ (\A i \in 1..Len(call.dist.outcomes) : call.dist.outcomes[i] # call.x)
               => result.val = Zero

\* pmf of an outcome listed twice with two different probabilities
C2_Witness ==
    /\ call.op = "pmf"
    /\ Len(call.dist.outcomes) = 2
    /\ call.dist.outcomes[1] = call.x
    /\ call.dist.outcomes[2] = call.x
    /\ call.dist.probabilities[1] # call.dist.probabilities[2]
    /\ result.val = call.dist.probabilities[1]

RECURSIVE PmfOver(_, _)
\* the sum of pmf over a set of values
PmfOver(dist, S) ==
    IF S = {} THEN Zero
    ELSE LET x == CHOOSE y \in S : TRUE
         IN  Add(Pmf(dist, x), PmfOver(dist, S \ {x}))

Distinct(s) == \A i, j \in 1..Len(s) : s[i] = s[j] => i = j

Range(s) == {s[i] : i \in 1..Len(s)}

\* C3: measure(subset) is the sum of pmf over the elements of subset when
\* they are pairwise distinct, and panics when subset repeats an element.
\* Over all the outcomes of a distribution with distinct outcomes it is the
\* sum of the probabilities: 1 within the 1e-10 of new(), and exactly 1 when
\* the probabilities carry no noise.
C3_MeasureSumsDistinctSubset ==
    call.op = "measure" =>
        /\ result.ok <=> Distinct(call.domain)
        /\ result.ok => result.val = PmfOver(call.dist, Range(call.domain))
        /\ (Distinct(call.dist.outcomes) /\ call.domain = call.dist.outcomes) =>
               /\ result.ok
               /\ Less(Abs(Sub(result.val, One(call.dist.den))),
                       Tolerance(call.dist.den))
               /\ NoiseSum(call.dist.probabilities) = 0
                      => result.val = One(call.dist.den)

\* measure over all the outcomes of a distribution with two distinct outcomes
C3_Witness ==
    /\ call.op = "measure"
    /\ Len(call.domain) = 2
    /\ call.domain = call.dist.outcomes
    /\ result.ok
    /\ result.val = One(call.dist.den)

\* measure over a subset that repeats an element
C3_WitnessPanic ==
    /\ call.op = "measure"
    /\ ~Distinct(call.domain)
    /\ ~result.ok

\* the position sample() is documented to stop at: the first at which the
\* remainder of u is <= 0, the last outcome when there is none
StopPosition(dist, u) ==
    LET rem(k) == Sub(u, SumFrom(SubSeq(dist.probabilities, 1, k), 1))
        hits == {k \in 1..Len(dist.probabilities) : ~IsPos(rem(k))}
    IN  IF hits = {} THEN Len(dist.outcomes)
        ELSE CHOOSE k \in hits : \A m \in hits : k <= m

\* C6: for every valid distribution and every draw u in [0, 1), u = 0 and a
\* u above the sum of the probabilities included, sample() returns the
\* outcome at the first position where the remainder is <= 0, clamped to the
\* last outcome, and never indexes outside the vectors.
C6_SampleReturnsClampedOutcome ==
    call.op = "sample" =>
        /\ result.ok
        /\ result.val = call.dist.outcomes[StopPosition(call.dist, call.u)]


(***************************************************************************)
(* Properties of discrete_convolution and the convoluted_* constructors    *)
(***************************************************************************)
\* the sum over X's outcomes k of pmf_X(k) * pmf_Y(z - k)
OutcomeSum(X, Y, z) ==
    Sum([i \in 1..Len(X.outcomes) |->
            Mul(Pmf(X, X.outcomes[i]), Pmf(Y, z - X.outcomes[i]))])

RECURSIVE MassOver(_, _, _)
MassOver(X, Y, S) ==
    IF S = {} THEN Zero
    ELSE LET ij == CHOOSE e \in S : TRUE
         IN  Add(Mul(X.probabilities[ij[1]], Y.probabilities[ij[2]]),
                 MassOver(X, Y, S \ {ij}))

\* the probability that independent draws of X and of Y add up to z
SumMass(X, Y, z) ==
    MassOver(X, Y, {ij \in (1..Len(X.outcomes)) \X (1..Len(Y.outcomes)) :
                       X.outcomes[ij[1]] + Y.outcomes[ij[2]] = z})

\* the integers from one below the least sum of outcomes to one above the
\* largest
SumValues(X, Y) ==
    (MinOf(X.outcomes) + MinOf(Y.outcomes) - 1)
        ..(MaxOf(X.outcomes) + MaxOf(Y.outcomes) + 1)

NonNegative(X) == \A i \in 1..Len(X.probabilities) : Geq(X.probabilities[i], Zero)

NoiseFree(X) == \A i \in 1..Len(X.probabilities) : X.probabilities[i].f = 0

\* x when x > 0, else 0
PositivePart(x) == IF IsPos(x) THEN x ELSE Zero

\* Bernoulli(0.5), when the grid holds 0.5
Half == Num(Den \div 2, 0, 0)

Bernoulli05 == Dist(<<0, 1>>, <<Half, Half>>, Den)

\* C4: the distribution discrete_convolution(X, Y) returns has, at every
\* integer z, the pmf sum over X's outcomes k of pmf_X(k) * pmf_Y(z - k)
\* (a sum that is not positive, which takes a probability below 0, is
\* returned as 0); for X and Y with distinct outcomes this is the
\* distribution of the sum of independent X and Y, and the call returns
\* whenever their probabilities carry no noise.  For X = Y = Bernoulli(0.5)
\* the result is outcomes [0, 1, 2] with probabilities [0.25, 0.5, 0.25].
C4_ConvolutionIsSumDistribution ==
    call.op = "discrete_convolution" =>
        /\ result.ok =>
              \A z \in SumValues(call.dist_x, call.dist_y) :
                  /\ Pmf(result.val, z)
                        = PositivePart(OutcomeSum(call.dist_x, call.dist_y, z))
                  /\ (NonNegative(call.dist_x) /\ NonNegative(call.dist_y))
                        => Pmf(result.val, z) = OutcomeSum(call.dist_x, call.dist_y, z)
                  /\ (Distinct(call.dist_x.outcomes) /\ Distinct(call.dist_y.outcomes))
                        => Pmf(result.val, z)
                              = PositivePart(SumMass(call.dist_x, call.dist_y, z))
        /\ (/\ Distinct(call.dist_x.outcomes) /\ Distinct(call.dist_y.outcomes)
            /\ NoiseFree(call.dist_x) /\ NoiseFree(call.dist_y))
              => result.ok
        /\ (2 * Half.n = Den /\ call.dist_x = Bernoulli05 /\ call.dist_y = Bernoulli05)
              => result = Ok(Dist(<<0, 1, 2>>,
                                  <<Num(Half.n * Half.n, 0, 0),
                                    Num(2 * Half.n * Half.n, 0, 0),
                                    Num(Half.n * Half.n, 0, 0)>>,
                                  Den * Den))

\* the convolution of Bernoulli(0.5) with itself
C4_Witness ==
    /\ call.op = "discrete_convolution"
    /\ call.dist_x = Bernoulli05
    /\ call.dist_y = Bernoulli05
    /\ result.ok
    /\ result.val.outcomes = <<0, 1, 2>>
    /\ 4 * result.val.probabilities[2].n = 2 * result.val.den

\* the convolution of two distributions one of which holds a probability
\* below 0
C4_WitnessNoise ==
    /\ call.op = "discrete_convolution"
    /\ ~NonNegative(call.dist_x)
    /\ result.ok
    /\ \E z \in SumValues(call.dist_x, call.dist_y) :
           Less(OutcomeSum(call.dist_x, call.dist_y, z), Zero)

RECURSIVE Choose(_, _)
\* the binomial coefficient C(n, k)
Choose(n, k) ==
    IF k < 0 \/ k > n THEN 0
    ELSE IF k = 0 \/ k = n THEN 1
    ELSE Choose(n - 1, k - 1) + Choose(n - 1, k)

RECURSIVE Pow(_, _)
Pow(a, k) == IF k <= 0 THEN 1 ELSE a * Pow(a, k - 1)

RECURSIVE SumOfCopies(_, _)
\* the distribution of the sum of n >= 1 independent copies of base
SumOfCopies(base, n) ==
    IF n <= 1 THEN Ok(base)
    ELSE IF ~SumOfCopies(base, n - 1).ok THEN Panic
    ELSE DiscreteConvolution(SumOfCopies(base, n - 1).val, base)

\* two results hold the same distribution: the same outcomes with the same
\* probabilities (of grid values, each read relative to its denominator)
SameDistribution(r, q) ==
    /\ r.ok /\ q.ok
    /\ r.val.outcomes = q.val.outcomes
    /\ Len(r.val.probabilities) = Len(q.val.probabilities)
    /\ \A i \in 1..Len(r.val.probabilities) :
           r.val.probabilities[i].n * q.val.den = q.val.probabilities[i].n * r.val.den

\* C5: convoluted_binomial(n, p) and convoluted_multinomial(n, probabilities)
\* are the distribution of the sum of n independent copies of the base
\* distribution: for n >= 1, convoluted_binomial(n, p) has its outcomes in
\* 0..n with P(k) = C(n, k) * p^k * (1 - p)^(n - k).
C5_ConvolutedIsSumOfNCopies ==
    /\ (/\ call.op = "convoluted_binomial"
        /\ call.n >= 1
        /\ Len(call.probabilities) >= 2)
          => /\ result.ok
             /\ \A i \in 1..Len(result.val.outcomes) :
                    result.val.outcomes[i] \in 0..call.n
             /\ \A k \in 0..call.n :
                    Pmf(result.val, k).n * Pow(Den, call.n)
                       = Choose(call.n, k)
                            * Pow(call.probabilities[2].n, k)
                            * Pow(Den - call.probabilities[2].n, call.n - k)
                            * result.val.den
    /\ (/\ call.op = "convoluted_multinomial"
        /\ call.n >= 1
        /\ Multinomial(call.probabilities, Den).ok)
          => SameDistribution(result,
                 SumOfCopies(Multinomial(call.probabilities, Den).val, call.n))


(***************************************************************************)
(* Properties of cartesian_product! and joint_distribution!                *)
(***************************************************************************)
RECURSIVE IntProd(_)
IntProd(s) == IF s = <<>> THEN 1 ELSE Head(s) * IntProd(Tail(s))

\* n_1 .. n_k, the sizes of the vectors
Sizes(vectors) == [j \in 1..Len(vectors) |-> Len(vectors[j])]

\* f_j = n_1 * ... * n_(j-1), for j counted from 1
Stride(vectors, j) == IntProd(SubSeq(Sizes(vectors), 1, j - 1))

\* (i / f_j) mod n_j, for i counted from 0 and j from 1
Digit(vectors, i, j) == (i \div Stride(vectors, j)) % Len(vectors[j])

\* C7: for k >= 1 vectors of sizes n_1 .. n_k, cartesian_product! returns
\* exactly n_1 * ... * n_k tuples, and the j-th component of the tuple at
\* index i is v_j[(i / f_j) mod n_j] with f_1 = 1 and f_j = f_(j-1) * n_(j-1):
\* the first vector varies fastest, and
\* cartesian_product([1,2],[4,5]) = [[1,4],[2,4],[1,5],[2,5]].
C7_ProductIsMixedRadix ==
    (call.op = "cartesian_product" /\ Len(call.vectors) >= 1) =>
        /\ result.ok
        /\ Len(result.val) = IntProd(Sizes(call.vectors))
        /\ \A i \in 0..(Len(result.val) - 1) :
               /\ Len(result.val[i + 1]) = Len(call.vectors)
               /\ \A j \in 1..Len(call.vectors) :
                      result.val[i + 1][j]
                         = call.vectors[j][Digit(call.vectors, i, j) + 1]
        /\ call.vectors = <<(<<1, 2>>), (<<4, 5>>)>>
              => result.val = <<(<<1, 4>>), (<<2, 4>>), (<<1, 5>>), (<<2, 5>>)>>

\* the product of the documentation's example
C7_Witness ==
    /\ call.op = "cartesian_product"
    /\ call.vectors = <<(<<1, 2>>), (<<4, 5>>)>>
    /\ result.ok
    /\ result.val[2] = <<2, 4>>

\* one element of each vector
Combinations(vectors) ==
    {c \in [1..Len(vectors) -> UNION {Range(vectors[j]) : j \in 1..Len(vectors)}] :
        \A j \in 1..Len(vectors) : c[j] \in Range(vectors[j])}

\* C8: for vectors of distinct elements the result of cartesian_product!, in
\* both forms of the macro, lists every combination (one element of each
\* vector) exactly once, and nothing else.
C8_ProductIsBijection ==
    (/\ call.op = "cartesian_product"
     /\ Len(call.vectors) >= 1
     /\ \A j \in 1..Len(call.vectors) : Distinct(call.vectors[j])) =>
        /\ result.ok
        /\ \A c \in Combinations(call.vectors) :
               Cardinality({i \in 1..Len(result.val) : result.val[i] = c}) = 1
        /\ \A i \in 1..Len(result.val) : result.val[i] \in Combinations(call.vectors)

\* the product, in the form that lists identifiers, of two vectors of two
\* distinct elements each
C8_Witness ==
    /\ call.op = "cartesian_product"
    /\ call.form = "idents"
    /\ Len(call.vectors) = 2
    /\ \A j \in 1..2 : Len(call.vectors[j]) = 2 /\ Distinct(call.vectors[j])
    /\ Len(result.val) = 4

RECURSIVE NumProd(_)
\* the product of a sequence of f64
NumProd(s) == IF s = <<>> THEN Num(1, 0, 0) ELSE Mul(Head(s), NumProd(Tail(s)))

OutcomeVectors(dists) == [j \in 1..Len(dists) |-> dists[j].outcomes]

\* C9: in the distribution joint_distribution!(A, B, ...) builds, outcome
\* tuple i and probability i belong to the same components: with i_j the
\* j-th mixed-radix digit of i, outcome[i] = (A.outcomes[i_1], B.outcomes[i_2],
\* ...) and P_joint[i] = P_A[i_1] * P_B[i_2] * ...
C9_JointPairsOutcomeAndProbability ==
    (call.op = "joint_distribution" /\ result.ok) =>
        /\ Len(result.val.outcomes) = IntProd(Sizes(OutcomeVectors(call.dists)))
        /\ Len(result.val.probabilities) = Len(result.val.outcomes)
        /\ \A i \in 0..(Len(result.val.outcomes) - 1) :
               /\ result.val.outcomes[i + 1]
                     = [j \in 1..Len(call.dists) |->
                          call.dists[j].outcomes[
                              Digit(OutcomeVectors(call.dists), i, j) + 1]]
               /\ result.val.probabilities[i + 1]
                     = NumProd([j \in 1..Len(call.dists) |->
                          call.dists[j].probabilities[
                              Digit(OutcomeVectors(call.dists), i, j) + 1]])

\* a joint distribution of two distributions that differ, of two outcomes each
C9_Witness ==
    /\ call.op = "joint_distribution"
    /\ Len(call.dists) = 2
    /\ Len(call.dists[1].outcomes) = 2
    /\ Len(call.dists[2].outcomes) = 2
    /\ call.dists[1].probabilities[1] # call.dists[1].probabilities[2]
    /\ call.dists[1].probabilities # call.dists[2].probabilities
    /\ result.ok
    /\ Len(result.val.outcomes) = 4

\* |x - 1| < 1e-10, for x read relative to d
NearOne(x, d) == Less(Abs(Sub(x, One(d))), Tolerance(d))

\* the product of the sums of the probabilities of A and of B
SumProduct(A, B) == Mul(Sum(A.probabilities), Sum(B.probabilities))

\* C10 as stated: for any valid A and B, joint_distribution!(A, B) is a valid
\* distribution, and measure over the list of all its outcomes is 1.
C10_JointOfAnyValidMeasuresOne ==
    /\ (call.op = "joint_distribution" /\ Len(call.dists) = 2) => result.ok
    /\ call.op = "joint_measure" =>
          /\ result.ok
          /\ NearOne(result.val, call.dists[1].den * call.dists[2].den)

\* What joint_distribution!(A, B) does guarantee in place of C10: for valid A
\* and B it is a valid distribution exactly when the product of the two sums of probabilities is
\* 1 within 1e-10, as it is when both sums are exactly 1; measure over the
\* list of all its outcomes then returns that product (1 within 1e-10, and
\* exactly 1 without noise) provided neither A nor B lists an outcome twice,
\* and panics if one does.
C10_JointOfDistinctMeasuresOne ==
    /\ (call.op = "joint_distribution" /\ Len(call.dists) = 2) =>
          /\ result.ok <=> NearOne(SumProduct(call.dists[1], call.dists[2]),
                                   call.dists[1].den * call.dists[2].den)
          /\ (NoiseFree(call.dists[1]) /\ NoiseFree(call.dists[2])) => result.ok
    /\ call.op = "joint_measure" =>
          /\ result.ok <=>
                /\ NearOne(SumProduct(call.dists[1], call.dists[2]),
                           call.dists[1].den * call.dists[2].den)
                /\ Distinct(call.dists[1].outcomes)
                /\ Distinct(call.dists[2].outcomes)
          /\ result.ok =>
                /\ result.val = SumProduct(call.dists[1], call.dists[2])
                /\ NearOne(result.val, call.dists[1].den * call.dists[2].den)
                /\ (NoiseFree(call.dists[1]) /\ NoiseFree(call.dists[2]))
                      => result.val = One(call.dists[1].den * call.dists[2].den)

\* measure over all the outcomes of the joint distribution of two noisy
\* distributions of two distinct outcomes each
C10_Witness ==
    /\ call.op = "joint_measure"
    /\ Len(call.dists[1].outcomes) = 2
    /\ Len(call.dists[2].outcomes) = 2
    /\ ~NoiseFree(call.dists[1])
    /\ ~NoiseFree(call.dists[2])
    /\ result.ok
    /\ result.val # One(call.dists[1].den * call.dists[2].den)

(***************************************************************************)
(* Properties of the filters of discrete_convolution                       *)
(***************************************************************************)
\* C11: the distribution discrete_convolution returns lists only outcomes
\* with a probability strictly above 0, in strictly increasing order inside
\* [min(X) + min(Y), max(X) + max(Y)], and after the two filters the
\* probability at each index is the one computed for the outcome at that
\* index.
C11_ConvolutionKeepsPositiveAligned ==
    (call.op = "discrete_convolution" /\ result.ok) =>
        /\ Len(result.val.outcomes) = Len(result.val.probabilities)
        /\ \A i \in 1..Len(result.val.outcomes) :
               /\ IsPos(result.val.probabilities[i])
               /\ result.val.probabilities[i]
                     # Zero
               /\ result.val.outcomes[i]
                     >= MinOf(call.dist_x.outcomes) + MinOf(call.dist_y.outcomes)
               /\ result.val.outcomes[i]
                     <= MaxOf(call.dist_x.outcomes) + MaxOf(call.dist_y.outcomes)
               /\ result.val.probabilities[i]
                     = OutcomeSum(call.dist_x, call.dist_y, result.val.outcomes[i])
        /\ \A i \in 1..(Len(result.val.outcomes) - 1) :
               result.val.outcomes[i] < result.val.outcomes[i + 1]

\* a convolution whose range holds a sum of probability 0 between two sums
\* that are kept
C11_Witness ==
    /\ call.op = "discrete_convolution"
    /\ result.ok
    /\ Len(result.val.outcomes) = 2
    /\ result.val.outcomes[2] = result.val.outcomes[1] + 2
    /\ ~IsPos(OutcomeSum(call.dist_x, call.dist_y, result.val.outcomes[1] + 1))

(***************************************************************************)
(* i32 arithmetic, and the combinatorial constructor binomial(n, p) of     *)
(* src/src/discrete_distribution.rs.  An i32 operation that overflows      *)
(* panics in a build with overflow checks (the debug profile) and wraps    *)
(* modulo 2^32 without them (the release profile): `checks` says which.    *)
(***************************************************************************)
\* i32::MAX
MaxI32 == 2147483647

MinI32 == 0 - MaxI32 - 1

\* n <= 12 in binomial(n, p)
MaxTrials == 12

Overflows(a, b) ==
    \/ a > 0 /\ b > 0 /\ a > MaxI32 - b
    \/ a < 0 /\ b < 0 /\ a < MinI32 - b

\* a + b modulo 2^32, as an i32
AddWrap(a, b) ==
    IF a > 0 /\ b > 0 /\ a > MaxI32 - b THEN (a - MaxI32 - 1) + (b - MaxI32 - 1)
    ELSE IF a < 0 /\ b < 0 /\ a < MinI32 - b THEN (a + MaxI32 + 1) + (b + MaxI32 + 1)
    ELSE a + b

RECURSIVE MulWrap(_, _)
\* a * b modulo 2^32, as an i32, for b >= 0
MulWrap(a, b) ==
    IF b = 0 THEN 0
    ELSE LET half == MulWrap(a, b \div 2)
             twice == AddWrap(half, half)
         IN  IF b % 2 = 0 THEN twice ELSE AddWrap(twice, a)

\* a * b of two i32 >= 0 fits an i32
Fits(a, b) == a = 0 \/ b = 0 \/ a <= MaxI32 \div b

\* a * b on i32 >= 0: the product, wrapped or a panic when it does not fit
MulI32(a, b, checks) ==
    IF Fits(a, b) THEN Ok(a * b)
    ELSE IF checks THEN Panic
    ELSE Ok(MulWrap(a, b))

\* a / b on i32: truncates towards 0, panics on a division by 0 and on
\* i32::MIN / -1
DivI32(a, b) ==
    IF b = 0 \/ (a = MinI32 /\ b = 0 - 1) THEN Panic
    ELSE IF (a >= 0) = (b > 0) THEN Ok(a \div b)
    ELSE Ok(0 - ((0 - a) \div b))

RECURSIVE FactorialFold(_, _, _, _)
\* (1..n + 1).fold(1, |acc, x| acc * x), from x on with acc so far
FactorialFold(acc, x, n, checks) ==
    IF x > n \/ ~acc.ok THEN acc
    ELSE FactorialFold(IF acc.val >= 0 THEN MulI32(acc.val, x, checks)
                       ELSE Ok(MulWrap(acc.val, x)),
                       x + 1, n, checks)

\* factorial
Factorial(n, checks) ==
    IF n = 0 \/ n = 1 THEN Ok(1) ELSE FactorialFold(Ok(1), 1, n, checks)

\* binomial_coeff: factorial(n) / (factorial(k) * factorial(n - k))
BinomialCoeff(n, k, checks) ==
    LET fn == Factorial(n, checks)
        fk == Factorial(k, checks)
        fnk == Factorial(n - k, checks)
    IN  IF ~fn.ok \/ ~fk.ok \/ ~fnk.ok THEN Panic
        ELSE LET prod == IF fk.val >= 0 /\ fnk.val >= 0
                         THEN MulI32(fk.val, fnk.val, checks)
                         ELSE IF checks THEN Panic
                         ELSE Ok(MulWrap(fk.val, fnk.val))
             IN  IF ~prod.ok THEN Panic ELSE DivI32(fn.val, prod.val)

\* c as f64 * x
Scale(c, x) == Num(c * x.n, c * x.f, c * x.g)

RECURSIVE PowI(_, _)
\* x.powi(e) for e >= 0, relative to the e-th power of x's denominator
PowI(x, e) == IF e <= 0 THEN Num(1, 0, 0) ELSE Mul(x, PowI(x, e - 1))

RECURSIVE IntPowI(_, _)
IntPowI(d, e) == IF e <= 0 THEN 1 ELSE d * IntPowI(d, e - 1)

RECURSIVE BinomialCoeffsFrom(_, _, _)
\* binomial_coeff(n, k) for the k of (0..=n + 1), from k on
BinomialCoeffsFrom(n, k, checks) ==
    IF k > n + 1 THEN <<>>
    ELSE <<BinomialCoeff(n, k, checks)>> \o BinomialCoeffsFrom(n, k + 1, checks)

\* DiscreteProbabilityDistribution::binomial(n, p), for p = p.n / d.  The
\* outcomes are (0..=n + 1), so the last term is
\* binomial_coeff(n, n + 1) * p^(n + 1) * (1 - p)^(-1).  With 1 - p = 0 the
\* last factor is infinite and the term NaN or infinite, which new() rejects;
\* otherwise every term is written over the denominator d^n * (1 - p).n:
\* coeff * p^k * (1 - p)^(n + 1 - k).
BinomialNP(n, p, d, checks) ==
    IF ~(Geq(p, Zero) /\ Geq(One(d), p)) THEN Panic
    ELSE IF ~(n > 0) THEN Panic
    ELSE IF ~(n <= MaxTrials) THEN Panic
    ELSE LET outcomes == [i \in 1..(n + 2) |-> i - 1]
             q == Sub(One(d), p)
             coeffs == BinomialCoeffsFrom(n, 0, checks)
         IN  IF \E i \in 1..(n + 2) : ~coeffs[i].ok THEN Panic
             ELSE IF q = Zero THEN Panic
             ELSE New(outcomes,
                      [i \in 1..(n + 2) |->
                          Scale(coeffs[i].val,
                                Mul(PowI(p, i - 1), PowI(q, n + 2 - i)))],
                      IntPowI(d, n) * q.n)

\* the p handed to binomial(n, p): the grid from one step below 0 to one
\* step above 1
TrialProbs == {Num(a, 0, 0) : a \in (0 - 1)..(Den + 1)}

DoBinomialNP ==
    /\ Fresh
    /\ \E n \in (0 - 1)..(MaxTrials + 1), p \in TrialProbs, checks \in BOOLEAN :
           /\ call' = [op |-> "binomial", n |-> n, p |-> p, checks |-> checks]
           /\ result' = BinomialNP(n, p, Den, checks)

\* most samples handed to construct
MaxSamples == 4

RECURSIVE SortAsc(_)
\* collect::<HashSet<&i32>>() ... collect::<Vec<i32>>() and outcomes.sort():
\* the distinct values, ascending
SortAsc(S) ==
    IF S = {} THEN <<>>
    ELSE LET lo == CHOOSE x \in S : \A y \in S : x <= y
         IN  <<lo>> \o SortAsc(S \ {lo})

\* samples.iter().filter(|&&y| y == x).count()
Count(samples, x) == Cardinality({i \in 1..Len(samples) : samples[i] = x})

\* construct dividing each count by the number of distinct values
ConstructByDistinct(samples, d) ==
    LET outcomes == SortAsc({samples[i] : i \in 1..Len(samples)})
    IN  New(outcomes,
            [i \in 1..Len(outcomes) |-> Num(Count(samples, outcomes[i]) * d, 0, 0)],
            Len(outcomes) * d)

\* DiscreteProbabilityDistribution::construct: each probability is
\* count / samples.len(), written over the denominator samples.len() * d (the
\* rounding of the division is far below the 1e-10 the model resolves)
Construct(samples, d) ==
    LET outcomes == SortAsc({samples[i] : i \in 1..Len(samples)})
    IN  IF Len(samples) = 0 THEN New(<<>>, <<>>, d)
        ELSE New(outcomes,
                 [i \in 1..Len(outcomes) |->
                     Num(Count(samples, outcomes[i]) * d, 0, 0)],
                 Len(samples) * d)

\* the i32 samples: outcomes below 0 too
SampleVals == (0 - 1)..MaxVal

DoConstruct ==
    /\ Fresh
    /\ \E samples \in SeqsUpTo(SampleVals, MaxSamples) :
           /\ call' = [op |-> "construct", samples |-> samples]
           /\ result' = Construct(samples, Den)

\* binomial_coeff(n, k) as binomial(n, p) calls it: n has passed the
\* assertions 0 < n <= 12 and k runs over the outcomes (0..=n + 1)
DoBinomialCoeff ==
    /\ Fresh
    /\ \E n \in 1..MaxTrials, checks \in BOOLEAN :
           \E k \in 0..(n + 1) :
               /\ call' = [op |-> "binomial_coeff", n |-> n, k |-> k, checks |-> checks]
               /\ result' = BinomialCoeff(n, k, checks)

NextBuild == DoBinomialNP \/ DoConstruct \/ DoBinomialCoeff

SpecBuild == Init /\ [][NextBuild]_vars

(***************************************************************************)
(* Information: src/src/probability/discrete_information.rs,               *)
(* src/src/probability/information_unit.rs, src/src/information.rs.        *)
(*                                                                         *)
(* The f64 these functions compute is NaN, +inf, -inf or a finite value.   *)
(* A finite value is kept exactly as a combination, with coefficients      *)
(* c[i] / den, of                                                          *)
(*     1 (= log2 2), log2 3, log2 5, log2 7, log2(1/eps), log2 e           *)
(* which are independent over the rationals, so two values are equal       *)
(* exactly when their coefficients are.  Terms of order eps are dropped    *)
(* and `approx` records that some were: the value then holds up to noise.  *)
(* The integers a logarithm is taken of have no prime factor above 7.      *)
(***************************************************************************)
NaN == [k |-> "nan"]

PosInf == [k |-> "inf"]

NegInf == [k |-> "ninf"]

Fin(c, den, approx) == [k |-> "fin", c |-> c, den |-> den, approx |-> approx]

ZeroVec == <<0, 0, 0, 0, 0, 0>>

VecAdd(u, v) == [i \in 1..6 |-> u[i] + v[i]]

VecScale(a, u) == [i \in 1..6 |-> a * u[i]]

\* 0. as an f64 result
FinZero == Fin(ZeroVec, 1, FALSE)

\* a finite value outside the span of the basis
Off == [k |-> "off"]

\* an integer as an f64
FinInt(a) == Fin(<<a, 0, 0, 0, 0, 0>>, 1, FALSE)

RECURSIVE Multiplicity(_, _)
\* how often the prime q divides n > 0
Multiplicity(n, q) == IF n % q = 0 THEN 1 + Multiplicity(n \div q, q) ELSE 0

\* log2 n for an integer n > 0
Factors(n) ==
    <<Multiplicity(n, 2), Multiplicity(n, 3), Multiplicity(n, 5),
      Multiplicity(n, 7), 0, 0>>

AbsInt(a) == IF a < 0 THEN 0 - a ELSE a

\* the order in eps of a number that is not 0, and its coefficient there
Ord(p) == IF p.n # 0 THEN 0 ELSE IF p.f # 0 THEN 1 ELSE 2

Lead(p) == IF p.n # 0 THEN p.n ELSE IF p.f # 0 THEN p.f ELSE p.g

\* p carries terms below its leading one
HasNoise(p) ==
    \/ Ord(p) = 0 /\ (p.f # 0 \/ p.g # 0)
    \/ Ord(p) = 1 /\ p.g # 0

\* the sum of two f64
InfoAdd(a, b) ==
    IF a.k = "nan" \/ b.k = "nan" THEN NaN
    ELSE IF a.k = "inf" THEN (IF b.k = "ninf" THEN NaN ELSE PosInf)
    ELSE IF a.k = "ninf" THEN (IF b.k = "inf" THEN NaN ELSE NegInf)
    ELSE IF b.k = "inf" \/ b.k = "ninf" THEN b
    ELSE IF a.k = "off" \/ b.k = "off" THEN Off
    ELSE IF a.den = b.den
         THEN Fin(VecAdd(a.c, b.c), a.den, a.approx \/ b.approx)
         ELSE Fin(VecAdd(VecScale(b.den, a.c), VecScale(a.den, b.c)),
                  a.den * b.den, a.approx \/ b.approx)

\* -x
InfoNeg(a) ==
    IF a.k = "nan" THEN NaN
    ELSE IF a.k = "inf" THEN NegInf
    ELSE IF a.k = "ninf" THEN PosInf
    ELSE IF a.k = "off" THEN Off
    ELSE Fin(VecScale(0 - 1, a.c), a.den, a.approx)

\* x / 2.
InfoHalf(a) == IF a.k # "fin" THEN a ELSE Fin(a.c, 2 * a.den, a.approx)

\* (p / d).log2()
Log2(p, d) ==
    IF p = Zero THEN NegInf
    ELSE IF ~IsPos(p) THEN NaN
    ELSE Fin([VecAdd(Factors(Lead(p)), VecScale(0 - 1, Factors(d)))
                 EXCEPT ![5] = 0 - Ord(p)],
             1, HasNoise(p))

\* (p / d) * lg for an f64 lg
TimesLog(p, d, lg) ==
    IF lg.k = "nan" THEN NaN
    ELSE IF lg.k = "inf"
         THEN (IF p = Zero THEN NaN ELSE IF IsPos(p) THEN PosInf ELSE NegInf)
    ELSE IF lg.k = "ninf"
         THEN (IF p = Zero THEN NaN ELSE IF IsPos(p) THEN NegInf ELSE PosInf)
    ELSE IF p = Zero \/ lg = FinZero THEN FinZero
    ELSE IF lg.k = "off" THEN Off
    ELSE IF Ord(p) > 0 THEN Fin(ZeroVec, 1, TRUE)
    ELSE Fin(VecScale(p.n, lg.c), d * lg.den, lg.approx \/ HasNoise(p))

\* InformationUnit::Bit(x) and InformationUnit::Nat(x)
Bit(x) == [unit |-> "Bit", x |-> x]

Nat_(x) == [unit |-> "Nat", x |-> x]

RECURSIVE EntropyFold(_, _, _)
\* probabilities.into_iter().fold(0., |sum, p| sum + p * p.log2()), from
\* index i on with sum so far
EntropyFold(dist, sum, i) ==
    IF i > Len(dist.probabilities) THEN sum
    ELSE EntropyFold(dist,
                     InfoAdd(sum, TimesLog(dist.probabilities[i], dist.den,
                                           Log2(dist.probabilities[i], dist.den))),
                     i + 1)

\* entropy without the sign
EntropyNotNegated(dist) == Bit(EntropyFold(dist, FinZero, 1))

\* entropy
Entropy(dist) == Bit(InfoNeg(EntropyFold(dist, FinZero, 1)))

\* (p_x / p_y).log2(), for p_x read over d_x and p_y over d_y; x / x is 1
\* exactly
Log2Ratio(p_x, d_x, p_y, d_y) ==
    IF p_y = Zero
    THEN (IF p_x = Zero THEN NaN ELSE IF IsPos(p_x) THEN PosInf ELSE NaN)
    ELSE IF p_x = Zero THEN NegInf
    ELSE IF IsPos(p_x) # IsPos(p_y) THEN NaN
    ELSE IF p_x = p_y /\ d_x = d_y THEN FinZero
    ELSE Fin([VecAdd(Factors(AbsInt(Lead(p_x)) * d_y),
                     VecScale(0 - 1, Factors(AbsInt(Lead(p_y)) * d_x)))
                 EXCEPT ![5] = Ord(p_y) - Ord(p_x)],
             1, HasNoise(p_x) \/ HasNoise(p_y))

\* p_x * (p_x / p_y).log2() for the outcome x
KLTerm(dist_x, dist_y, x) ==
    TimesLog(Pmf(dist_x, x), dist_x.den,
             Log2Ratio(Pmf(dist_x, x), dist_x.den, Pmf(dist_y, x), dist_y.den))

RECURSIVE KLSum(_, _, _)
\* the sum of the terms over the HashSet of the outcomes of both
KLSum(dist_x, dist_y, S) ==
    IF S = {} THEN FinZero
    ELSE LET x == CHOOSE y \in S : TRUE
         IN  InfoAdd(KLTerm(dist_x, dist_y, x), KLSum(dist_x, dist_y, S \ {x}))

\* the HashSet of the outcomes of dist_x and dist_y
UnionOutcomes(dist_x, dist_y) ==
    {dist_x.outcomes[i] : i \in 1..Len(dist_x.outcomes)}
        \cup {dist_y.outcomes[i] : i \in 1..Len(dist_y.outcomes)}

\* kullback_leibler_divergence
KullbackLeiblerDivergence(dist_x, dist_y) ==
    Bit(KLSum(dist_x, dist_y, UnionOutcomes(dist_x, dist_y)))

\* the orders a HashSet can be iterated in
Orders(S) == {s \in [1..Cardinality(S) -> S] : {s[i] : i \in 1..Len(s)} = S}

\* average_discrete_distributions taking P(x) + Q(x) without halving it
AverageNotHalved(dist_x, dist_y, order) ==
    New(order,
        [i \in 1..Len(order) |->
            Add(Scale(dist_y.den, Pmf(dist_x, order[i])),
                Scale(dist_x.den, Pmf(dist_y, order[i])))],
        dist_x.den * dist_y.den)

\* average_discrete_distributions (discrete_average_distributions is the
\* same code), with the HashSet iterated in `order`: (P(x) + Q(x)) / 2. over
\* the denominator 2 * d_x * d_y
AverageDiscreteDistributions(dist_x, dist_y, order) ==
    New(order,
        [i \in 1..Len(order) |->
            Add(Scale(dist_y.den, Pmf(dist_x, order[i])),
                Scale(dist_x.den, Pmf(dist_y, order[i])))],
        2 * dist_x.den * dist_y.den)

\* x * E.log2() and x / 2f64.ln(): the magnitude in bits of x nats, for a
\* rational x
NatsToBits(x) ==
    IF x.k # "fin" THEN x
    ELSE IF \E i \in 2..6 : x.c[i] # 0 THEN Off
    ELSE Fin(<<0, 0, 0, 0, 0, x.c[1]>>, x.den, x.approx)

\* impl Add for InformationUnit with the mixed sums left in nats
UnitAddKeepsNat(a, b) ==
    IF a.unit = "Bit" /\ b.unit = "Bit" THEN Bit(InfoAdd(a.x, b.x))
    ELSE IF a.unit = "Nat" /\ b.unit = "Nat" THEN Nat_(InfoAdd(a.x, b.x))
    ELSE IF a.unit = "Bit" THEN Bit(InfoAdd(a.x, NatsToBits(b.x)))
    ELSE Nat_(InfoAdd(a.x, b.x))

\* impl Add for InformationUnit
UnitAdd(a, b) ==
    IF a.unit = "Bit" /\ b.unit = "Bit" THEN Bit(InfoAdd(a.x, b.x))
    ELSE IF a.unit = "Nat" /\ b.unit = "Nat" THEN Nat_(InfoAdd(a.x, b.x))
    ELSE IF a.unit = "Bit" THEN Bit(InfoAdd(a.x, NatsToBits(b.x)))
    ELSE Bit(InfoAdd(NatsToBits(a.x), b.x))

\* impl Sub for InformationUnit
UnitSub(a, b) ==
    IF a.unit = "Bit" /\ b.unit = "Bit" THEN Bit(InfoAdd(a.x, InfoNeg(b.x)))
    ELSE IF a.unit = "Nat" /\ b.unit = "Nat" THEN Nat_(InfoAdd(a.x, InfoNeg(b.x)))
    ELSE IF a.unit = "Bit" THEN Bit(InfoAdd(a.x, InfoNeg(NatsToBits(b.x))))
    ELSE Bit(InfoAdd(NatsToBits(a.x), InfoNeg(b.x)))

\* apply(|x| x / 2.)
ApplyHalf(a) == [unit |-> a.unit, x |-> InfoHalf(a.x)]

\* jensen_shannon_divergence, with the HashSet of the average iterated in
\* `order`
JensenShannonDivergence(dist_x, dist_y, order) ==
    LET m == AverageDiscreteDistributions(dist_x, dist_y, order)
    IN  IF ~m.ok THEN Panic
        ELSE Ok(ApplyHalf(UnitAdd(KullbackLeiblerDivergence(dist_x, m.val),
                                  KullbackLeiblerDivergence(dist_y, m.val))))

\* joint_entropy
JointEntropy(dist_x, dist_y) ==
    LET joint == JointDistribution(<<dist_x, dist_y>>)
    IN  IF ~joint.ok THEN Panic ELSE Ok(Entropy(joint.val))

\* largest k of the multinomials uniform over 2^k outcomes
MaxK == 2

\* multinomial(vec![1 / 2^k; 2^k]), each probability Den / (Den * 2^k)
UniformMultinomial(k) ==
    Multinomial([i \in 1..IntPowI(2, k) |-> Num(Den, 0, 0)], Den * IntPowI(2, k)).val

\* the distributions entropy is called on
EntropyDists == ValidDists \cup {UniformMultinomial(k) : k \in 0..MaxK}

DoEntropy ==
    /\ Fresh
    /\ \E dist \in EntropyDists :
           /\ call' = [op |-> "entropy", dist |-> dist]
           /\ result' = Ok(Entropy(dist))

\* the pairs of distributions the divergences are called on
InfoPairs == Pairs \cup {<<dist, dist>> : dist \in ValidDists}

DoKullbackLeibler ==
    /\ Fresh
    /\ \E pair \in InfoPairs :
           /\ call' = [op |-> "kullback_leibler_divergence",
                       dist_x |-> pair[1], dist_y |-> pair[2]]
           /\ result' = Ok(KullbackLeiblerDivergence(pair[1], pair[2]))

DoAverage ==
    /\ Fresh
    /\ \E pair \in InfoPairs :
           \E order \in Orders(UnionOutcomes(pair[1], pair[2])) :
               /\ call' = [op |-> "average_discrete_distributions",
                           dist_x |-> pair[1], dist_y |-> pair[2], order |-> order]
               /\ result' = AverageDiscreteDistributions(pair[1], pair[2], order)

DoJensenShannon ==
    /\ Fresh
    /\ \E pair \in InfoPairs :
           \E order \in Orders(UnionOutcomes(pair[1], pair[2])) :
               /\ call' = [op |-> "jensen_shannon_divergence",
                           dist_x |-> pair[1], dist_y |-> pair[2]]
               /\ result' = JensenShannonDivergence(pair[1], pair[2], order)

DoJointEntropy ==
    /\ Fresh
    /\ \E pair \in InfoPairs :
           /\ call' = [op |-> "joint_entropy",
                       dist_x |-> pair[1], dist_y |-> pair[2]]
           /\ result' = JointEntropy(pair[1], pair[2])

\* the InformationUnit values added and subtracted: whole numbers of bits
\* and of nats
Units == {Bit(FinInt(a)) : a \in (0 - 1)..(MaxVal + 1)}
             \cup {Nat_(FinInt(a)) : a \in (0 - 1)..(MaxVal + 1)}

DoUnitAdd ==
    /\ Fresh
    /\ \E a \in Units, b \in Units :
           /\ call' = [op |-> "add", a |-> a, b |-> b]
           /\ result' = Ok(UnitAdd(a, b))

DoUnitSub ==
    /\ Fresh
    /\ \E a \in Units, b \in Units :
           /\ call' = [op |-> "sub", a |-> a, b |-> b]
           /\ result' = Ok(UnitSub(a, b))

NextInfo ==
    \/ DoEntropy
    \/ DoKullbackLeibler
    \/ DoJensenShannon
    \/ DoJointEntropy

NextAverage == DoAverage

SpecAverage == Init /\ [][NextAverage]_vars

NextUnit == DoUnitAdd \/ DoUnitSub

SpecUnit == Init /\ [][NextUnit]_vars

SpecInfo == Init /\ [][NextInfo]_vars

\* C12: for 1 <= n <= 12 and p in [0, 1], binomial(n, p) returns the
\* distribution whose outcomes are exactly the integers 0..n (n + 1 of them)
\* with P(k) = C(n, k) * p^k * (1 - p)^(n - k).
C12_BinomialIsZeroToN ==
    (/\ call.op = "binomial"
     /\ 1 <= call.n /\ call.n <= MaxTrials
     /\ Geq(call.p, Zero) /\ Geq(One(Den), call.p))
        => /\ result.ok
           /\ result.val.outcomes = [i \in 1..(call.n + 1) |-> i - 1]
           /\ \A k \in 0..call.n :
                  Pmf(result.val, k).n * IntPowI(Den, call.n)
                     = Choose(call.n, k) * IntPowI(call.p.n, k)
                          * IntPowI(Den - call.p.n, call.n - k) * result.val.den

\* C13: for a non-empty list of samples, construct returns the distinct
\* sample values in strictly ascending order, each with probability
\* count(value) / len(samples); the probabilities sum to 1, and pmf(v) > 0
\* exactly for the values v that occur in samples.
C13_ConstructIsEmpiricalDistribution ==
    (call.op = "construct" /\ Len(call.samples) > 0) =>
        /\ result.ok
        /\ Range(result.val.outcomes) = Range(call.samples)
        /\ \A i \in 1..(Len(result.val.outcomes) - 1) :
               result.val.outcomes[i] < result.val.outcomes[i + 1]
        /\ Len(result.val.probabilities) = Len(result.val.outcomes)
        /\ \A i \in 1..Len(result.val.outcomes) :
               /\ result.val.probabilities[i].f = 0
               /\ result.val.probabilities[i].g = 0
               /\ result.val.probabilities[i].n * Len(call.samples)
                     = Count(call.samples, result.val.outcomes[i]) * result.val.den
        /\ Sum(result.val.probabilities) = One(result.val.den)
        /\ \A v \in SampleVals \cup {Absent} :
               IsPos(Pmf(result.val, v)) <=> v \in Range(call.samples)

\* construct from unsorted samples that repeat a value
C13_Witness ==
    /\ call.op = "construct"
    /\ Len(call.samples) = 3
    /\ call.samples[1] > call.samples[2]
    /\ call.samples[3] = call.samples[1]
    /\ result.ok
    /\ Len(result.val.outcomes) = 2
    /\ result.val.probabilities[2].n * 3 = 2 * result.val.den

(***************************************************************************)
(* Properties of entropy and the divergences                               *)
(***************************************************************************)
\* the outcomes of dist with a probability that is not 0 exactly, and their
\* probabilities
NonZeroIndices(dist) == {i \in 1..Len(dist.probabilities) : dist.probabilities[i] # Zero}

RECURSIVE Pick(_, _, _)
\* the elements of s at the indices in I, in order
Pick(s, I, i) ==
    IF i > Len(s) THEN <<>>
    ELSE IF i \in I THEN <<s[i]>> \o Pick(s, I, i + 1) ELSE Pick(s, I, i + 1)

WithoutZeros(dist) ==
    Dist(Pick(dist.outcomes, NonZeroIndices(dist), 1),
         Pick(dist.probabilities, NonZeroIndices(dist), 1), dist.den)

\* two finite f64 hold the same value
SameValue(a, b) ==
    /\ a.k = "fin" /\ b.k = "fin"
    /\ VecScale(b.den, a.c) = VecScale(a.den, b.c)

\* C14: entropy treats every outcome of probability 0 as contributing
\* exactly 0: a distribution that lists outcomes of probability 0 has the
\* finite entropy of the distribution without them, never NaN.
C14_EntropySkipsZeroProbability ==
    (call.op = "entropy" /\ NonNegative(call.dist)) =>
        /\ result.val.x.k = "fin"
        /\ SameValue(result.val.x, Entropy(WithoutZeros(call.dist)).x)

\* C15: the entropy of the multinomial uniform over 2^k outcomes is k, tagged
\* Bit.
C15_UniformEntropyIsKBits ==
    \A k \in 0..MaxK :
        (call.op = "entropy" /\ call.dist = UniformMultinomial(k)) =>
            /\ result.ok
            /\ result.val.unit = "Bit"
            /\ SameValue(result.val.x, FinInt(k))
            /\ ~result.val.x.approx

\* the entropy of the multinomial uniform over 4 outcomes
C15_Witness ==
    /\ call.op = "entropy"
    /\ call.dist = UniformMultinomial(2)
    /\ Len(call.dist.outcomes) = 4
    /\ result.val = Bit(Fin(<<8 * Den, 0, 0, 0, 0, 0>>, 4 * Den, FALSE))

\* C16: for any valid P, one that lists an outcome of probability 0 too,
\* kullback_leibler_divergence(P, P) = 0 and
\* jensen_shannon_divergence(P, P) = 0.
C16_SelfDivergenceIsZero ==
    /\ (call.op = "kullback_leibler_divergence" /\ call.dist_x = call.dist_y)
          => SameValue(result.val.x, FinZero)
    /\ (call.op = "jensen_shannon_divergence" /\ call.dist_x = call.dist_y)
          => (result.ok /\ SameValue(result.val.x, FinZero))

\* there is an outcome x with P(x) > 0 and Q(x) = 0
SupportEscapes(P, Q) ==
    \E x \in UnionOutcomes(P, Q) : IsPos(Pmf(P, x)) /\ Pmf(Q, x) = Zero

\* C17: kullback_leibler_divergence(P, Q) is +infinity, neither a crash nor
\* NaN, whenever there is an outcome x with P(x) > 0 and Q(x) = 0, whatever
\* the other outcomes of P and Q are.
C17_DivergenceInfiniteOffSupport ==
    (call.op = "kullback_leibler_divergence"
        /\ SupportEscapes(call.dist_x, call.dist_y))
        => (result.ok /\ result.val = Bit(PosInf))

\* C18: for any two valid P and Q, the average M lists every outcome of the
\* union of their outcomes exactly once with probability (P(x) + Q(x)) / 2,
\* its probabilities sum to 1, and building it never fails.
C18_AverageIsValidOverUnion ==
    call.op = "average_discrete_distributions" =>
        /\ result.ok
        /\ Distinct(result.val.outcomes)
        /\ Range(result.val.outcomes) = UnionOutcomes(call.dist_x, call.dist_y)
        /\ \A i \in 1..Len(result.val.outcomes) :
               result.val.probabilities[i]
                  = Add(Scale(call.dist_y.den,
                              Pmf(call.dist_x, result.val.outcomes[i])),
                        Scale(call.dist_x.den,
                              Pmf(call.dist_y, result.val.outcomes[i])))
        /\ result.val.den = 2 * call.dist_x.den * call.dist_y.den
        /\ NearOne(Sum(result.val.probabilities), result.val.den)

\* C19: for any valid X and Y, joint_entropy(X, Y) = entropy(X) + entropy(Y),
\* so the mutual information entropy(X) + entropy(Y) - joint_entropy(X, Y)
\* is 0.
C19_JointEntropyIsSumOfEntropies ==
    call.op = "joint_entropy" =>
        /\ result.ok
        /\ SameValue(result.val.x,
                     UnitAdd(Entropy(call.dist_x), Entropy(call.dist_y)).x)
        /\ SameValue(UnitSub(UnitAdd(Entropy(call.dist_x), Entropy(call.dist_y)),
                             result.val).x,
                     FinZero)

(***************************************************************************)
(* Properties of the arithmetic of InformationUnit                         *)
(***************************************************************************)
\* the whole number an InformationUnit of Units holds
Whole(u) == u.x.c[1]

\* the magnitude in bits of u: a whole number of bits, or a whole number of
\* multiples of log2 e
InBits(u) ==
    IF u.unit = "Bit" THEN <<Whole(u), 0, 0, 0, 0, 0>>
    ELSE <<0, 0, 0, 0, 0, Whole(u)>>

\* the sign + and - apply to the second operand
Sign(op) == IF op = "add" THEN 1 ELSE 0 - 1

\* C20: a sum or a difference of InformationUnit values is tagged Nat only
\* when both operands are Nat; when the tags differ the Nat operand is
\* converted to bits and the result is tagged Bit, in either order, so a + b
\* and b + a carry the same tag and magnitude.
C20_MixedUnitsCollapseToBit ==
    call.op \in {"add", "sub"} =>
        /\ result.ok
        /\ result.val.unit = "Nat" <=> (call.a.unit = "Nat" /\ call.b.unit = "Nat")
        /\ result.val.x.k = "fin"
        /\ result.val.x.den = 1
        /\ call.a.unit = call.b.unit =>
               result.val.x.c
                  = <<Whole(call.a) + Sign(call.op) * Whole(call.b), 0, 0, 0, 0, 0>>
        /\ call.a.unit # call.b.unit =>
               /\ result.val.unit = "Bit"
               /\ result.val.x.c
                     = VecAdd(InBits(call.a), VecScale(Sign(call.op), InBits(call.b)))
        /\ call.op = "add" => result.val = UnitAdd(call.b, call.a)

\* a number of nats plus a number of bits
C20_Witness ==
    /\ call.op = "add"
    /\ call.a.unit = "Nat"
    /\ call.b.unit = "Bit"
    /\ Whole(call.a) # 0
    /\ Whole(call.b) # 0
    /\ result.val.unit = "Bit"
    /\ result.val.x.c[6] = Whole(call.a)
    /\ result.val.x.c[1] = Whole(call.b)

(***************************************************************************)
(* Kolmogorov-Smirnov estimation:                                          *)
(* src/src/probability/continuous_testing.rs.  A sample is a finite f64    *)
(* drawn by sample(); the functions use only the order and the equality of *)
(* the samples, so a sample is modelled by an integer.  A relative         *)
(* frequency count as f64 / n as f64 is kept as the pair of count and n:   *)
(* two of them are the same f64 exactly when they are the same fraction,   *)
(* and the quotient is monotone in count (n is far below 2^53).            *)
(***************************************************************************)
RECURSIVE InsertSorted(_, _)
\* x placed before the first element above it
InsertSorted(s, x) ==
    IF s = <<>> THEN <<x>>
    ELSE IF x < Head(s) THEN <<x>> \o s
    ELSE <<Head(s)>> \o InsertSorted(Tail(s), x)

RECURSIVE SortBy(_)
\* reduced_set.sort_by(|a, b| a.partial_cmp(b).unwrap()): ascending order
SortBy(s) == IF s = <<>> THEN <<>> ELSE InsertSorted(SortBy(Tail(s)), Head(s))

RECURSIVE Dedup(_)
\* Vec::dedup: of every run of equal consecutive elements the first is kept
Dedup(s) ==
    IF Len(s) <= 1 THEN s
    ELSE IF s[1] = s[2] THEN Dedup(Tail(s))
    ELSE <<s[1]>> \o Dedup(Tail(s))

\* continuous_set_reduce without the call of dedup
ContinuousSetReduceNoDedup(set) == SortBy(set)

\* continuous_set_reduce
ContinuousSetReduce(set) == Dedup(SortBy(set))

\* count as f64 / n as f64
Freq(count, n) == [num |-> count, den |-> n]

\* a < b for two relative frequencies
FreqLess(a, b) == a.num * b.den < b.num * a.den

\* a = b for two relative frequencies
FreqEq(a, b) == a.num * b.den = b.num * a.den

\* ks_estimate_continuous_cdf: the control points (x, y).  For no samples
\* cdf_x is empty and the division by n = 0 is never evaluated.
KsEstimateContinuousCdf(samples) ==
    LET n == Len(samples)
        cdf_x == ContinuousSetReduce(samples)
        cdf_y == [i \in 1..Len(cdf_x) |->
                     Freq(Cardinality({j \in 1..n : samples[j] <= cdf_x[i]}), n)]
    IN  [i \in 1..Len(cdf_x) |-> <<cdf_x[i], cdf_y[i]>>]

DoKsEstimate ==
    /\ Fresh
    /\ \E samples \in SeqsUpTo(SampleVals, MaxSamples) :
           /\ call' = [op |-> "ks_estimate_continuous_cdf", samples |-> samples]
           /\ result' = Ok(KsEstimateContinuousCdf(samples))

(***************************************************************************)
(* PowerLawDistribution: src/src/probability/continuous_distribution.rs.   *)
(* shift and min_x are integers, the points of an interval are fractions   *)
(* and the exponent is a whole number, so that powf yields a fraction: an  *)
(* f64 here is +infinity, -infinity or the fraction num / den with den > 0 *)
(* (the rounding of f64 is left out).                                      *)
(***************************************************************************)
\* largest exponent handed to PowerLawDistribution::new
MaxExponent == 3

Frac(num, den) == [k |-> "fin", num |-> num, den |-> den]

FracInf == [k |-> "inf"]

FracNegInf == [k |-> "ninf"]

FracInt(a) == Frac(a, 1)

\* a < b for two finite fractions
FracLess(a, b) == a.num * b.den < b.num * a.den

\* a = b for two finite fractions
FracSame(a, b) == a.num * b.den = b.num * a.den

\* a - b, where at most one of the two is infinite
FracSub(a, b) ==
    IF a.k = "fin" /\ b.k = "fin"
    THEN Frac(a.num * b.den - b.num * a.den, a.den * b.den)
    ELSE IF a.k = "fin" THEN (IF b.k = "inf" THEN FracNegInf ELSE FracInf)
    ELSE a

\* a * b for a finite a > 0
FracMul(a, b) ==
    IF b.k = "fin" THEN Frac(a.num * b.num, a.den * b.den) ELSE b

\* a / b for two finite fractions, b > 0
FracDiv(a, b) == Frac(a.num * b.den, a.den * b.num)

\* |a - b| for two finite fractions
FracAbsDiff(a, b) ==
    LET d == FracSub(a, b) IN IF d.num < 0 THEN Frac(0 - d.num, d.den) ELSE d

\* base.powf(e) for a finite base and a whole e < 0: 1 / base^(-e), and
\* +infinity for base = 0
PowF(base, e) ==
    IF base.num = 0 THEN FracInf
    ELSE LET p == IntPowI(base.num, 0 - e)
             q == IntPowI(base.den, 0 - e)
         IN  IF p > 0 THEN Frac(q, p) ELSE Frac(0 - q, 0 - p)

PowerLaw(factor, shift, exponent, min_x) ==
    [factor |-> factor, shift |-> shift, exponent |-> exponent, min_x |-> min_x]

\* PowerLawDistribution::new
PowerLawNew(shift, exponent, min_x) ==
    IF ~(exponent > 1) THEN Panic
    ELSE IF ~(shift < min_x) THEN Panic
    ELSE Ok(PowerLaw(FracDiv(FracInt(exponent - 1), PowF(FracInt(min_x - shift), 1 - exponent)),
                     shift, exponent, min_x))

\* PowerLawDistribution::measure
PowerLawMeasure(dist, domain) ==
    IF ~FracLess(domain[1], domain[2]) THEN Panic
    ELSE Ok(FracMul(dist.factor,
                    FracSub(PowF(FracSub(domain[1], FracInt(dist.shift)),
                                 1 - dist.exponent),
                            PowF(FracSub(domain[2], FracInt(dist.shift)),
                                 1 - dist.exponent))))

\* PowerLawDistribution::cdf
PowerLawCdf(dist, x) == PowerLawMeasure(dist, <<FracInt(dist.min_x), x>>)

\* the values of shift
Shifts == (0 - 1)..0

\* the values of min_x
MinXs == 0..(MaxVal + 1)

\* the points of the intervals measured: below shift, up to well past min_x
Points == (0 - 2)..(MaxVal + 3)

\* the distributions PowerLawDistribution::new builds
PowerLaws ==
    {PowerLawNew(s, e, m).val :
        <<s, e, m>> \in {t \in Shifts \X (0..MaxExponent) \X MinXs :
                            PowerLawNew(t[1], t[2], t[3]).ok}}

DoPowerLawNew ==
    /\ Fresh
    /\ \E s \in Shifts, e \in 0..MaxExponent, m \in MinXs :
           /\ call' = [op |-> "power_law_new", shift |-> s, exponent |-> e, min_x |-> m]
           /\ result' = PowerLawNew(s, e, m)

DoPowerLawMeasure ==
    /\ Fresh
    /\ \E dist \in PowerLaws, a \in Points, b \in Points :
           /\ call' = [op |-> "power_law_measure", dist |-> dist, domain |-> <<a, b>>]
           /\ result' = PowerLawMeasure(dist, <<FracInt(a), FracInt(b)>>)

DoPowerLawCdf ==
    /\ Fresh
    /\ \E dist \in PowerLaws, x \in Points :
           /\ call' = [op |-> "power_law_cdf", dist |-> dist, x |-> x]
           /\ result' = PowerLawCdf(dist, FracInt(x))

NextPowerLaw == DoPowerLawNew \/ DoPowerLawMeasure \/ DoPowerLawCdf

SpecPowerLaw == Init /\ [][NextPowerLaw]_vars

(***************************************************************************)
(* Kolmogorov-Smirnov distance:                                            *)
(* src/src/probability/continuous_testing.rs.  The grid points are         *)
(* fractions over NUM_STEPS; the distribution tested is a power law of     *)
(* exponent 2, whose cdf is a fraction at every grid point.                *)
(***************************************************************************)
\* NUM_STEPS of continuous_testing.rs
KS_NUM_STEPS == 1000

\* a panic of ks_distance, with the call that raised it
PanicAt(site) == [ok |-> FALSE, site |-> site]

RECURSIVE FracLessEuclid(_, _)
\* a < b for two finite fractions >= 0, comparing whole parts and then the
\* reciprocals of the remainders
FracLessEuclid(a, b) ==
    LET qa == a.num \div a.den
        qb == b.num \div b.den
        ra == a.num % a.den
        rb == b.num % b.den
    IN  IF qa # qb THEN qa < qb
        ELSE IF rb = 0 THEN FALSE
        ELSE IF ra = 0 THEN TRUE
        ELSE FracLessEuclid(Frac(b.den, rb), Frac(a.den, ra))

\* ks_evaluate_estimated_cdf with x_i < x for x_i <= x
KsEvaluateEstimatedCdfStrict(est_dist, x) ==
    LET kept == {i \in 1..Len(est_dist) : est_dist[i][1] * x.den < x.num}
    IN  IF kept = {} THEN Panic
        ELSE Ok(est_dist[CHOOSE i \in kept : \A j \in kept : j <= i][2])

\* ks_evaluate_estimated_cdf: the y of the last control point, in the order
\* of the vector, with x_i <= x; unwrap() panics when there is none
KsEvaluateEstimatedCdf(est_dist, x) ==
    LET kept == {i \in 1..Len(est_dist) : est_dist[i][1] * x.den <= x.num}
    IN  IF kept = {} THEN Panic
        ELSE Ok(est_dist[CHOOSE i \in kept : \A j \in kept : j <= i][2])

RECURSIVE MaxBy(_, _, _)
\* max_by(|a, b| a.partial_cmp(b).unwrap()) over diffs[lo..hi], lo <= hi
MaxBy(diffs, lo, hi) ==
    IF lo = hi THEN diffs[lo]
    ELSE LET mid == (lo + hi) \div 2
             l == MaxBy(diffs, lo, mid)
             r == MaxBy(diffs, mid + 1, hi)
         IN  IF FracLessEuclid(r, l) THEN l ELSE r

\* the grid of ks_distance: min_x + i * delta for i in 1..NUM_STEPS
KsGrid(min_x, max_x) ==
    [i \in 1..(KS_NUM_STEPS - 1) |->
        Frac(KS_NUM_STEPS * min_x + i * (max_x - min_x), KS_NUM_STEPS)]

\* ks_distance(dist, samples).  The closure calls dist.cdf(x), then
\* ks_evaluate_estimated_cdf(&cdf, &x), for the grid points in order: the
\* first call that panics ends the function.
KsDistance(dist, samples) ==
    LET cdf == KsEstimateContinuousCdf(samples)
    IN  IF Len(cdf) = 0 THEN PanicAt("max_x")
        ELSE LET max_x == MaxOf([i \in 1..Len(cdf) |-> cdf[i][1]])
                 min_x == MinOf([i \in 1..Len(cdf) |-> cdf[i][1]])
                 xs == KsGrid(min_x, max_x)
                 model == [i \in 1..Len(xs) |-> PowerLawCdf(dist, xs[i])]
                 estimated == [i \in 1..Len(xs) |-> KsEvaluateEstimatedCdf(cdf, xs[i])]
                 failed == {i \in 1..Len(xs) : ~model[i].ok \/ ~estimated[i].ok}
             IN  IF failed # {}
                 THEN LET i == CHOOSE k \in failed : \A j \in failed : k <= j
                      IN  IF ~model[i].ok THEN PanicAt("dist.cdf")
                          ELSE PanicAt("ks_evaluate_estimated_cdf")
                 ELSE IF Len(xs) = 0 THEN PanicAt("max_diff")
                 ELSE Ok(MaxBy([i \in 1..Len(xs) |->
                                   FracAbsDiff(model[i].val,
                                               Frac(estimated[i].val.num,
                                                    estimated[i].val.den))],
                               1, Len(xs)))

\* the power laws of exponent 2
KsDists == {dist \in PowerLaws : dist.exponent = 2}

\* the control points handed to ks_evaluate_estimated_cdf: those
\* ks_estimate_continuous_cdf builds, the empty vector included
KsControlPoints == {KsEstimateContinuousCdf(samples) : samples \in SeqsUpTo(SampleVals, MaxLen)}

DoKsEvaluate ==
    /\ Fresh
    /\ \E est_dist \in KsControlPoints, x \in Points :
           /\ call' = [op |-> "ks_evaluate_estimated_cdf", est_dist |-> est_dist, x |-> x]
           /\ result' = KsEvaluateEstimatedCdf(est_dist, FracInt(x))

DoKsDistance ==
    /\ Fresh
    /\ \E dist \in KsDists, samples \in SeqsUpTo(SampleVals, MaxLen) :
           /\ call' = [op |-> "ks_distance", dist |-> dist, samples |-> samples]
           /\ result' = KsDistance(dist, samples)

NextKs == DoKsEstimate \/ DoKsEvaluate \/ DoKsDistance

SpecKs == Init /\ [][NextKs]_vars

(***************************************************************************)
(* Properties of the Kolmogorov-Smirnov functions                          *)
(***************************************************************************)
\* C21: for a non-empty sample list of length n, ks_estimate_continuous_cdf
\* returns one control point per distinct sample value, with x strictly
\* increasing, y = (number of samples <= x) / n, y strictly increasing, and
\* y = 1 at the last control point.
C21_EmpiricalCdfControlPoints ==
    (call.op = "ks_estimate_continuous_cdf" /\ Len(call.samples) > 0) =>
        LET cdf == result.val
            n == Len(call.samples)
        IN  /\ result.ok
            /\ Len(cdf) = Cardinality(Range(call.samples))
            /\ {cdf[i][1] : i \in 1..Len(cdf)} = Range(call.samples)
            /\ \A i \in 1..(Len(cdf) - 1) :
                   /\ cdf[i][1] < cdf[i + 1][1]
                   /\ FreqLess(cdf[i][2], cdf[i + 1][2])
            /\ \A i \in 1..Len(cdf) :
                   FreqEq(cdf[i][2],
                          Freq(Cardinality({j \in 1..n : call.samples[j] <= cdf[i][1]}), n))
            /\ FreqEq(cdf[Len(cdf)][2], Freq(1, 1))

\* the control points of three unsorted samples, two of them equal
C21_Witness ==
    /\ call.op = "ks_estimate_continuous_cdf"
    /\ Len(call.samples) = 3
    /\ call.samples[1] > call.samples[2]
    /\ call.samples[3] = call.samples[1]
    /\ result.ok
    /\ Len(result.val) = 2
    /\ result.val[1][2] = Freq(1, 3)
    /\ result.val[2][2] = Freq(3, 3)

\* C29: for a sample list with at least one element, one whose samples are
\* all equal too, ks_distance evaluates the empirical CDF only at grid points
\* x with min(samples) <= x <= max(samples), the grid is not empty, the
\* lookup of ks_evaluate_estimated_cdf finds a control point with x_i <= x
\* at every grid point, and the maximum over the grid exists: when
\* ks_distance fails, it is dist.cdf that failed.
C29_EmpiricalSideNeverFails ==
    (call.op = "ks_distance" /\ Len(call.samples) >= 1) =>
        LET lo == MinOf(call.samples)
            hi == MaxOf(call.samples)
            xs == KsGrid(lo, hi)
        IN  /\ Len(xs) > 0
            /\ \A i \in 1..Len(xs) :
                   /\ ~FracLess(xs[i], FracInt(lo))
                   /\ ~FracLess(FracInt(hi), xs[i])
            /\ result.ok \/ result.site = "dist.cdf"
            /\ result.ok =>
                   /\ result.val.k = "fin"
                   /\ result.val.num >= 0

\* the distance of two equal samples, where every grid point is the sample
C29_Witness ==
    /\ call.op = "ks_distance"
    /\ Len(call.samples) = 2
    /\ call.samples[1] = call.samples[2]
    /\ result.ok

(***************************************************************************)
(* Properties of PowerLawDistribution                                      *)
(***************************************************************************)
\* ((min_x - shift) / (x - shift))^(exponent - 1), for x > shift
TailMass(dist, x) ==
    Frac(IntPowI(dist.min_x - dist.shift, dist.exponent - 1),
         IntPowI(x - dist.shift, dist.exponent - 1))

\* C22: for PowerLawDistribution(shift, exponent > 1, min_x > shift), the
\* measure over (a, b) with min_x <= a < b is the integral of the normalized
\* density, so that cdf(x) = 1 - ((x - shift) / (min_x - shift))^(1 - exponent)
\* for every x > min_x: cdf(x) lies in [0, 1) and increases with x, for every
\* exponent > 1.
C22_PowerLawCdfIsClosedForm ==
    /\ (call.op = "power_law_measure"
           /\ call.dist.min_x <= call.domain[1] /\ call.domain[1] < call.domain[2])
          => /\ result.ok
             /\ result.val.k = "fin"
             /\ FracSame(result.val,
                         FracSub(TailMass(call.dist, call.domain[1]),
                                 TailMass(call.dist, call.domain[2])))
    /\ (call.op = "power_law_cdf" /\ call.x > call.dist.min_x)
          => /\ result.ok
             /\ result.val.k = "fin"
             /\ FracSame(result.val, FracSub(FracInt(1), TailMass(call.dist, call.x)))
             /\ ~FracLess(result.val, FracInt(0))
             /\ FracLess(result.val, FracInt(1))
             /\ \A y \in Points :
                    y > call.x =>
                        FracLess(result.val, PowerLawCdf(call.dist, FracInt(y)).val)

(***************************************************************************)
(* Properties of sample() on outcomes of probability 0                     *)
(***************************************************************************)
\* C23: sample() never returns an outcome whose probability is 0: for every
\* valid distribution and every draw u in [0, 1), an outcome that sample()
\* returns is the one at the position the walk stopped at, and the
\* probability at that position is strictly positive, wherever the outcomes
\* of probability 0 sit in the sequence, at the front and at the end too.
C23_SampleSkipsZeroProbability ==
    (call.op = "sample" /\ result.ok) =>
        LET k == StopPosition(call.dist, call.u)
        IN  /\ result.val = call.dist.outcomes[k]
            /\ IsPos(call.dist.probabilities[k])
            /\ call.dist.probabilities[k] # Zero

\* a draw on a distribution whose first outcome has probability 0: the
\* second outcome is returned
C23_Witness ==
    /\ call.op = "sample"
    /\ Len(call.dist.outcomes) = 2
    /\ call.dist.probabilities[1] = Zero
    /\ call.dist.outcomes[1] # call.dist.outcomes[2]
    /\ IsPos(call.u)
    /\ result.ok
    /\ result.val = call.dist.outcomes[2]

\* a draw on a distribution whose last outcome has probability 0
C23_WitnessEnd ==
    /\ call.op = "sample"
    /\ Len(call.dist.outcomes) = 2
    /\ call.dist.probabilities[2] = Zero
    /\ call.dist.outcomes[1] # call.dist.outcomes[2]
    /\ result.ok
    /\ result.val = call.dist.outcomes[1]

(***************************************************************************)
(* Properties of discrete_convolution on repeated outcomes                 *)
(***************************************************************************)
\* C25: for any two valid integer distributions X and Y, those that list the
\* same outcome value at more than one index included, the probabilities
\* discrete_convolution(X, Y) computes sum to 1, so that the result is built
\* and the total probability mass is conserved (stated for probabilities
\* that carry no rounding noise, where the sum is exact).
C25_ConvolutionConservesMass ==
    (call.op = "discrete_convolution"
        /\ NoiseFree(call.dist_x) /\ NoiseFree(call.dist_y))
        => /\ result.ok
           /\ Sum(result.val.probabilities) = One(result.val.den)

(***************************************************************************)
(* Properties of jensen_shannon_divergence                                 *)
(***************************************************************************)
\* a lower bound, in millionths, of the numerator of a finite value without
\* a term in log2(1/eps): log2 3, log2 5, log2 7 and log2 e are taken
\* from below under a coefficient above 0 and from above under one below 0
LowerMicro(a) ==
    LET low == <<1000000, 1584962, 2321928, 2807354, 0, 1442695>>
        term(i) == IF a.c[i] >= 0 THEN a.c[i] * low[i] ELSE a.c[i] * (low[i] + 1)
    IN  term(1) + term(2) + term(3) + term(4) + term(6)

\* a finite value is >= 0
NonNegativeValue(a) ==
    /\ a.k = "fin"
    /\ \/ a.c = ZeroVec
       \/ a.c[5] > 0
       \/ a.c[5] = 0 /\ LowerMicro(a) > 0

\* C26: jensen_shannon_divergence(P, Q) is a finite number >= 0 for any two
\* valid integer distributions, those with different outcome sets included:
\* an outcome x with P(x) = 0 contributes 0 to KL(P, M), not an undefined
\* value.
C26_JensenShannonFiniteNonNegative ==
    call.op = "jensen_shannon_divergence" =>
        /\ result.ok
        /\ result.val.x.k = "fin"
        /\ NonNegativeValue(result.val.x)

(***************************************************************************)
(* special_convolution: src/src/convolution.rs, on the                     *)
(* DiscreteProbabilityDistribution<f64> of src/src/distribution.rs.  The   *)
(* f64 outcomes are whole numbers.                                         *)
(***************************************************************************)
\* DiscreteProbabilityDistribution::new of src/src/distribution.rs: no
\* probability below 0. is accepted
NewNonNegative(outcomes, probabilities, d) ==
    IF Len(outcomes) # Len(probabilities) THEN Panic
    ELSE IF ~(\A i \in 1..Len(probabilities) : Geq(probabilities[i], Zero)) THEN Panic
    ELSE IF ~Less(Abs(Sub(Sum(probabilities), One(d))), Tolerance(d)) THEN Panic
    ELSE Ok(Dist(outcomes, probabilities, d))

RECURSIVE FoldAdd(_, _, _)
\* x.into_iter().fold(0., |sum, y| sum + y), with sum so far, from y = x[i]
FoldAdd(x, sum, i) ==
    IF i > Len(x) THEN sum ELSE FoldAdd(x, sum + x[i], i + 1)

RECURSIVE MapFoldAdd(_, _)
\* .into_iter().map(|x| ...fold...).collect() from tuple i on
MapFoldAdd(tuples, i) ==
    IF i > Len(tuples) THEN <<>>
    ELSE <<FoldAdd(tuples[i], 0, 1)>> \o MapFoldAdd(tuples, i + 1)

\* special_convolution
SpecialConvolution(dist_x, dist_y) ==
    LET sums == CartesianProductOfIdents(<<dist_x.outcomes, dist_y.outcomes>>)
        probabilities ==
            CartesianProductOfIdents(<<dist_x.probabilities, dist_y.probabilities>>)
    IN  IF ~sums.ok \/ ~probabilities.ok THEN Panic
        ELSE NewNonNegative(MapFoldAdd(sums.val, 1),
                            MapFoldMul(probabilities.val, 1),
                            dist_x.den * dist_y.den)

\* the distributions special_convolution is called on: those new() builds
\* on the grid, and the one of main(), outcomes 1. and 2. with 0.5 each
SpecialDists ==
    {dist \in GridDists :
        NewNonNegative(dist.outcomes, dist.probabilities, dist.den).ok}
        \cup {NewNonNegative(<<1, 2>>, p, Den).val :
                 p \in {q \in {<<Half, Half>>} : NewNonNegative(<<1, 2>>, q, Den).ok}}

DoSpecialConvolution ==
    /\ Fresh
    /\ \E dist_x \in SpecialDists, dist_y \in SpecialDists :
           /\ call' = [op |-> "special_convolution",
                       dist_x |-> dist_x, dist_y |-> dist_y]
           /\ result' = SpecialConvolution(dist_x, dist_y)

NextSpecial == DoSpecialConvolution

SpecSpecial == Init /\ [][NextSpecial]_vars

(***************************************************************************)
(* Properties of special_convolution                                       *)
(***************************************************************************)
RECURSIVE PairMassOver(_, _, _)
PairMassOver(X, Y, S) ==
    IF S = {} THEN Zero
    ELSE LET ab == CHOOSE e \in S : TRUE
         IN  Add(Mul(Pmf(X, ab[1]), Pmf(Y, ab[2])),
                 PairMassOver(X, Y, S \ {ab}))

\* the sum over the pairs (a, b) with a + b = z of pmf_X(a) * pmf_Y(b)
PairMass(X, Y, z) ==
    PairMassOver(X, Y, {ab \in Range(X.outcomes) \X Range(Y.outcomes) :
                           ab[1] + ab[2] = z})

\* C27: the distribution special_convolution(X, Y) returns assigns to every
\* value z the whole mass of the convolution: pmf(z) is the sum over the
\* pairs (a, b) with a + b = z of pmf_X(a) * pmf_Y(b), also when several
\* pairs produce the same sum (X = Y = {1, 2} with 0.5 each gives
\* pmf(3) = 0.5).
C27_SpecialConvolutionFullMass ==
    call.op = "special_convolution" =>
        /\ result.ok
        /\ \A z \in SumValues(call.dist_x, call.dist_y) :
               Pmf(result.val, z) = PairMass(call.dist_x, call.dist_y, z)

(***************************************************************************)
(* NormalDistribution: src/src/probability/continuous_distribution.rs.     *)
(* mean and the points of an interval are integers, and variance is the    *)
(* square of an integer, so that variance.sqrt() is exact.  The value of a *)
(* numeric integration is kept as what it is, a left Riemann sum of the    *)
(* density over the interval in a number of steps, and is not evaluated.   *)
(***************************************************************************)
\* NUM_STEPS of continuous_distribution.rs
NUM_STEPS == 10000

\* largest standard deviation of a NormalDistribution
MaxSd == 2

Normal(mean, variance) == [mean |-> mean, variance |-> variance]

\* NormalDistribution::new
NormalNew(mean, variance) ==
    IF ~(variance > 0) THEN Panic ELSE Ok(Normal(mean, variance))

\* variance.sqrt() for the square of an integer
Sqrt(variance) == CHOOSE r \in 0..variance : r * r = variance

\* the sum of the density at the left ends of `steps` equal parts of
\* (from, to), each times the length of a part
RiemannSum(from, to, steps) ==
    [k |-> "riemann", from |-> from, to |-> to, steps |-> steps]

\* NormalDistribution::measure: the assertion, then NUM_STEPS iterations of
\* the for loop
NormalMeasure(dist, domain) ==
    IF ~(domain[1] < domain[2]) THEN Panic
    ELSE Ok(RiemannSum(domain[1], domain[2], NUM_STEPS))

\* NormalDistribution::cdf
NormalCdf(dist, x) ==
    NormalMeasure(dist, <<dist.mean - 5 * Sqrt(dist.variance), x>>)

\* the values of mean
Means == (0 - 1)..MaxVal

\* the values of variance new() is called on: squares, 0 and one below
Variances == {s * s : s \in 0..MaxSd} \cup {0 - 1}

\* the distributions NormalDistribution::new builds
Normals ==
    {NormalNew(m, v).val : <<m, v>> \in {t \in Means \X Variances : NormalNew(t[1], t[2]).ok}}

\* the points x of cdf(x) and of the intervals: from below mean - 5 * sqrt(variance)
\* of every distribution to above every mean
NormalPoints == ((0 - 2) - 5 * MaxSd)..(MaxVal + 1)

DoNormalNew ==
    /\ Fresh
    /\ \E m \in Means, v \in Variances :
           /\ call' = [op |-> "normal_new", mean |-> m, variance |-> v]
           /\ result' = NormalNew(m, v)

DoNormalMeasure ==
    /\ Fresh
    /\ \E dist \in Normals, a \in NormalPoints, b \in NormalPoints :
           /\ call' = [op |-> "normal_measure", dist |-> dist, domain |-> <<a, b>>]
           /\ result' = NormalMeasure(dist, <<a, b>>)

DoNormalCdf ==
    /\ Fresh
    /\ \E dist \in Normals, x \in NormalPoints :
           /\ call' = [op |-> "normal_cdf", dist |-> dist, x |-> x]
           /\ result' = NormalCdf(dist, x)

NextNormal == DoNormalNew \/ DoNormalMeasure \/ DoNormalCdf

SpecNormal == Init /\ [][NextNormal]_vars

(***************************************************************************)
(* Properties of NormalDistribution::cdf                                   *)
(***************************************************************************)
\* C28: NormalDistribution::cdf(x) returns a value for every finite x: it
\* never fails, also for x <= mean - 5 * sqrt(variance), where the value is
\* that of an integration over an empty range, about 0.
C28_NormalCdfNeverFails ==
    call.op = "normal_cdf" =>
        /\ result.ok
        /\ result.val.k = "riemann"
        /\ result.val.to = call.x

(***************************************************************************)
(* The loops of the numeric integrations, one step per loop test and per   *)
(* loop body:                                                              *)
(*   NormalDistribution::measure, src/src/probability/continuous_distribution.rs *)
(*   ContinuousFunction::measure, src/src/function.rs                      *)
(*   ContinuousProbabilityDistribution::measure (the default of the        *)
(*   trait), src/src/continuous_distribution.rs                            *)
(* While a call runs, `result` holds its frame: the position in the loop   *)
(* and the loop variable.  The f64 of an interval are whole multiples of a *)
(* unit.  A step size is a whole number of units, or `tiny`: above 0 and   *)
(* below half the spacing of the f64 around the interval, so that          *)
(* x + step_size rounds to x.  The sum a loop accumulates decides no       *)
(* branch and is kept as the Riemann sum it is.                            *)
(***************************************************************************)
Running(frame) == [running |-> TRUE, frame |-> frame]

IsRunning(r) == "running" \in DOMAIN r

\* the call has returned or panicked
Returned(r) == "ok" \in DOMAIN r

\* most units in a step size
MaxStep == 2

Units_(v) == [k |-> "units", v |-> v]

Tiny == [k |-> "tiny"]

\* x + step_size, rounded to an f64
PlusStep(x, step_size) == IF step_size.k = "tiny" THEN x ELSE x + step_size.v

\* the step sizes handed to with_set_step_size: below 0, 0, tiny, and whole
\* numbers of units
StepSizes == {Tiny} \cup {Units_(v) : v \in (0 - 1)..MaxStep}

\* the ends of the intervals and of the domains of the functions
LoopPoints == 0..(MaxVal + 2)

ContinuousFunction(domain, step_size) == [domain |-> domain, step_size |-> step_size]

\* ContinuousFunction::with_set_step_size
WithSetStepSize(f, step_size) == [f EXCEPT !.step_size = step_size]

\* the functions measure is called on: ContinuousFunction::new over an
\* interval, then with_set_step_size
ContinuousFunctions ==
    {WithSetStepSize(ContinuousFunction(<<d0, d1>>, Tiny), s) :
        <<d0, d1, s>> \in {t \in LoopPoints \X LoopPoints \X StepSizes : t[1] < t[2]}}

\* ContinuousFunction::eval: the assertion on x
EvalAsserts(f, x) == x >= f.domain[1] /\ x <= f.domain[2]

\* NormalDistribution::measure up to the loop
StartNormalMeasure ==
    /\ Fresh
    /\ \E dist \in {Normal(0, 1)}, a \in 0..1, b \in 0..1 :
           /\ call' = [op |-> "normal_measure_loop", dist |-> dist, domain |-> <<a, b>>]
           /\ result' = IF ~(a < b) THEN Panic ELSE Running([i |-> 0])

\* for _ in 0..NUM_STEPS: one iteration
StepNormalMeasure ==
    /\ call.op = "normal_measure_loop"
    /\ IsRunning(result)
    /\ result.frame.i < NUM_STEPS
    /\ result' = Running([i |-> result.frame.i + 1])
    /\ UNCHANGED call

\* the range is exhausted: the scaling and the return
FinishNormalMeasure ==
    /\ call.op = "normal_measure_loop"
    /\ IsRunning(result)
    /\ ~(result.frame.i < NUM_STEPS)
    /\ result' = Ok(RiemannSum(call.domain[1], call.domain[2], result.frame.i))
    /\ UNCHANGED call

\* ContinuousFunction::measure up to the loop
StartFunctionMeasure ==
    /\ Fresh
    /\ \E f \in ContinuousFunctions, domain \in SeqsUpTo(LoopPoints, 2) :
           /\ call' = [op |-> "function_measure", f |-> f, domain |-> domain]
           /\ result' = IF Len(domain) # 2 THEN Panic
                        ELSE IF ~(domain[1] < domain[2]) THEN Panic
                        ELSE Running([pc |-> "while", x |-> domain[1]])

\* while x < domain[1]
TestFunctionMeasure ==
    /\ call.op = "function_measure"
    /\ IsRunning(result)
    /\ result.frame.pc = "while"
    /\ result' = IF result.frame.x < call.domain[2]
                 THEN Running([result.frame EXCEPT !.pc = "body"])
                 ELSE Ok(RiemannSum(call.domain[1], call.domain[2], call.f.step_size))
    /\ UNCHANGED call

\* the body of the loop: a step, or the last part and break
BodyFunctionMeasure ==
    /\ call.op = "function_measure"
    /\ IsRunning(result)
    /\ result.frame.pc = "body"
    /\ result' =
           IF PlusStep(result.frame.x, call.f.step_size) < call.domain[2]
           THEN IF ~EvalAsserts(call.f, result.frame.x) THEN Panic
                ELSE Running([pc |-> "while",
                              x |-> PlusStep(result.frame.x, call.f.step_size)])
           ELSE IF ~EvalAsserts(call.f, call.domain[2]) THEN Panic
                ELSE Ok(RiemannSum(call.domain[1], call.domain[2], call.f.step_size))
    /\ UNCHANGED call

\* the default measure of the trait up to the loop.  The unit is EPSILON
\* for an interval near 0; for one `far` from 0, where the spacing of the
\* f64 is above 2 * EPSILON, EPSILON is tiny.
StartTraitMeasure ==
    /\ Fresh
    /\ \E a \in LoopPoints, b \in LoopPoints, far \in BOOLEAN :
           /\ call' = [op |-> "trait_measure", domain |-> <<a, b>>,
                       EPSILON |-> IF far THEN Tiny ELSE Units_(1)]
           /\ result' = IF ~(a < b) THEN Panic
                        ELSE Running([pc |-> "while", x |-> a])

\* while x < domain.1
TestTraitMeasure ==
    /\ call.op = "trait_measure"
    /\ IsRunning(result)
    /\ result.frame.pc = "while"
    /\ result' = IF result.frame.x < call.domain[2]
                 THEN Running([result.frame EXCEPT !.pc = "body"])
                 ELSE Ok(RiemannSum(call.domain[1], call.domain[2], call.EPSILON))
    /\ UNCHANGED call

\* the body of the loop: a step of EPSILON, or the last part and break
BodyTraitMeasure ==
    /\ call.op = "trait_measure"
    /\ IsRunning(result)
    /\ result.frame.pc = "body"
    /\ result' =
           IF PlusStep(result.frame.x, call.EPSILON) < call.domain[2]
           THEN Running([pc |-> "while", x |-> PlusStep(result.frame.x, call.EPSILON)])
           ELSE Ok(RiemannSum(call.domain[1], call.domain[2], call.EPSILON))
    /\ UNCHANGED call

NextIntegration ==
    \/ StartNormalMeasure
    \/ StepNormalMeasure
    \/ FinishNormalMeasure
    \/ StartFunctionMeasure
    \/ TestFunctionMeasure
    \/ BodyFunctionMeasure
    \/ StartTraitMeasure
    \/ TestTraitMeasure
    \/ BodyTraitMeasure

\* a call that has started runs on: the library is single-threaded and
\* nothing suspends a loop
SpecIntegration ==
    /\ Init
    /\ [][NextIntegration]_vars
    /\ WF_vars(StepNormalMeasure \/ FinishNormalMeasure)
    /\ WF_vars(TestFunctionMeasure \/ BodyFunctionMeasure)
    /\ WF_vars(TestTraitMeasure \/ BodyTraitMeasure)

(***************************************************************************)
(* Properties of the loops of the numeric integrations                     *)
(***************************************************************************)
\* C24: every call of a numeric integration terminates:
\* NormalDistribution::measure performs NUM_STEPS iterations exactly, and
\* the loops driven by a step (ContinuousFunction::measure for any step size
\* installed through with_set_step_size, the measure of the trait stepping
\* by EPSILON) reach the upper bound and stop, for every interval a < b.
C24_IntegrationTerminates ==
    /\ []((call.op = "normal_measure_loop" /\ Returned(result) /\ result.ok)
             => result.val.steps = NUM_STEPS)
    /\ ((call.op \in {"normal_measure_loop", "function_measure", "trait_measure"}
            /\ IsRunning(result))
           ~> Returned(result))

(***************************************************************************)
(* Properties of factorial and binomial_coeff on i32                       *)
(***************************************************************************)
\* C30: for every n with 1 <= n <= 12 and every k that binomial(n, p) hands
\* to binomial_coeff, factorial and binomial_coeff neither overflow an i32
\* nor divide by 0, and binomial_coeff(n, k) is C(n, k) for 0 <= k <= n and 0
\* for k > n; 12 is the largest n whose factorial fits an i32.
C30_BinomialCoeffExact ==
    /\ Factorial(MaxTrials, TRUE).ok
    /\ ~Factorial(MaxTrials + 1, TRUE).ok
    /\ call.op = "binomial_coeff" =>
           /\ BinomialCoeff(call.n, call.k, TRUE).ok
           /\ result.ok
           /\ result.val = Choose(call.n, call.k)

====
